---- MODULE Spec2Model ----
(***************************************************************************)
(* Order book reconstruction engine of task1-pcap-parser/order_book.py:    *)
(* OrderBook (one instrument) and OrderBookManager (many instruments plus  *)
(* the top-of-book history).                                               *)
(*                                                                         *)
(* Representation                                                          *)
(*   - a Python dict is a function; its key set is the function's DOMAIN   *)
(*     (a defaultdict(dict) price level that was touched and emptied keeps *)
(*     its key with an empty dict as value);                               *)
(*   - Optional[T] is a sequence of length <= 1: None is <<>>, a value v   *)
(*     is <<v>>;                                                           *)
(*   - a heapq list is the bag of its entries: heap[0] is the least entry, *)
(*     heappop removes one copy of it, heappush adds one copy;             *)
(*   - prices are integer ticks (the source uses floats with two           *)
(*     decimals); mid_price, a half-tick quantity, is the pair             *)
(*     <<numerator, 2>>;                                                   *)
(*   - every method returns [book, ret, exc]: the object after the call,   *)
(*     the returned value and the exception raised ("ok" when none).       *)
(*     Order.timestamp_ns is written by the source and never read; it is   *)
(*     left out of the Order record.                                       *)
(***************************************************************************)
EXTENDS Integers, Sequences, FiniteSets, Bags

\* ---------------------------------------------------------------- bounds
\* longest heap list a single-book run may build (the heaps grow without
\* limit: every empty -> non-empty transition of a level pushes its price)
MaxHeap == 3

\* number of process_order calls in a manager run
MaxEvents == 2

\* number of records the capture stream holds
MaxRecords == 3

\* rows of the frame a backtest runs over
MaxRows == 3

\* ------------------------------------------------------- input domains
OrderIds == {1, 2}
Prices == {1, 2}
Sizes == {0, 1}
Times == {0, 1}
Sides == {"BID", "OFFER", "SELL"}
SecurityIds == {1, 2}
Actions == {"NEW", "CHANGE", "DELETE", "TRADE"}

\* the `levels` arguments of get_depth (5 is the default)
DepthLevels == {0, 1, 2, 5}

\* the keys of the `instruments` table in dict order, and the table's key set
InstrumentOrder == <<1, 2>>

Instruments == {InstrumentOrder[i] : i \in 1..Len(InstrumentOrder)}

\* the decode loops and the max_packets arguments (<<>> is None)
Loops == {"parse_incremental", "parse_incremental_sbe"}

Caps == {<<>>, <<0>>, <<1>>, <<2>>}

\* what a record's bytes decode to.  msg_type: payload[0:2], 334 a heartbeat;
\* template_id: of the SBE header found, 0 when find_sbe_header finds none;
\* SecurityID: 0 when the message has none, 3 an instrument outside the
\* table; mDEntryPx: in hundredths, 0 below the accepted range
MsgTypes == {334, 50}
TemplateIds == {0, 50, 51}
DecodedSecurityIds == {0, 1, 3}
DecodedPrices == {0} \cup Prices
DecodedOrderIds == {<<>>} \cup {<<i>> : i \in OrderIds}
UpdateActions == {"NEW", "CHANGE"}

\* the symbol the callers pass for an instrument (instruments[sec_id].symbol)
SymbolOf(security_id) == IF security_id = 1 THEN "WDO" ELSE "DOL"

\* book: an OrderBook used on its own; books, tob_history: the fields of an
\* OrderBookManager; exc: the exception that ended the run ("ok" while none);
\* call, ret: the latest process_order call and what it returned; nevents:
\* process_order calls so far; input_sorted: their timestamp_ns arguments
\* were non-decreasing so far
\* run: the arguments and local variables of a running decode loop; obs:
\* what the loop did so far (records read and decoded, the process_order
\* calls issued for the record in hand)
VARIABLES book, books, tob_history, exc, call, ret, nevents, input_sorted, run, obs

vars == <<book, books, tob_history, exc, call, ret, nevents, input_sorted, run, obs>>

\* ------------------------------------------------------- Python helpers
None == <<>>

Some(v) == <<v>>

OK == "ok"

EmptyDict == <<>>

\* d[k] = v
DictSet(d, k, v) == [x \in (DOMAIN d) \cup {k} |-> IF x = k THEN v ELSE d[x]]

\* d.pop(k, None)
DictPop(d, k) == [x \in (DOMAIN d) \ {k} |-> d[x]]

\* bool(d) of a dict: non-empty
Truthy(d) == DOMAIN d # {}

RECURSIVE SumOver(_, _)
SumOver(d, keys) ==
    IF keys = {} THEN 0
    ELSE LET k == CHOOSE x \in keys : TRUE
         IN d[k] + SumOver(d, keys \ {k})

\* sum(d.values())
SumValues(d) == SumOver(d, DOMAIN d)

SetMin(S) == CHOOSE x \in S : \A y \in S : x <= y

SetMax(S) == CHOOSE x \in S : \A y \in S : x >= y

\* heapq.heappush(heap, x)
heappush(heap, x) == heap (+) SetToBag({x})

\* heap[0]
heaptop(heap) == SetMin(BagToSet(heap))

\* heapq.heappop(heap), the list afterwards
heappop(heap) == heap (-) SetToBag({heaptop(heap)})

\* ------------------------------------------------------------ OrderBook
Order(order_id, price, size, side) ==
    [order_id |-> order_id, price |-> price, size |-> size, side |-> side]

OrderBook(security_id, symbol) ==
    [security_id |-> security_id,
     symbol |-> symbol,
     orders |-> EmptyDict,
     bid_levels |-> EmptyDict,
     ask_levels |-> EmptyDict,
     bid_prices |-> EmptyBag,
     ask_prices |-> EmptyBag,
     last_update_ns |-> 0]

Result(b, r, e) == [book |-> b, ret |-> r, exc |-> e]

\* faulty variant: an emptied level, whose key the defaultdict keeps, counts
\* as populated (`price not in levels` alone)
LevelEmpty_key_only(levels, price) == price \notin DOMAIN levels

\* `price not in levels or not levels[price]`
LevelEmpty(levels, price) ==
    price \notin DOMAIN levels \/ ~Truthy(levels[price])

\* `levels[price][order_id] = size` on a defaultdict(dict)
LevelSet(levels, price, order_id, size) ==
    DictSet(levels, price,
            DictSet(IF price \in DOMAIN levels THEN levels[price] ELSE EmptyDict,
                    order_id, size))

\* `if price in levels: levels[price].pop(order_id, None)`
LevelPop(levels, price, order_id) ==
    IF price \in DOMAIN levels
    THEN DictSet(levels, price, DictPop(levels[price], order_id))
    ELSE levels

\* faulty variant: the entry at the old price is not removed
modify_order_body_keeps_old(b, order_id, new_price, new_size, timestamp_ns) ==
    IF order_id \notin DOMAIN b.orders THEN Result(b, None, "KeyError")
    ELSE
    LET order == b.orders[order_id]
        updated == [order EXCEPT !.price = new_price, !.size = new_size]
    IN  IF order.side = "BID"
        THEN Result([b EXCEPT !.last_update_ns = timestamp_ns,
                              !.bid_levels = LevelSet(b.bid_levels, new_price, order_id, new_size),
                              !.bid_prices = IF LevelEmpty(b.bid_levels, new_price)
                                             THEN heappush(b.bid_prices, -new_price)
                                             ELSE b.bid_prices,
                              !.orders = DictSet(b.orders, order_id, updated)],
                    None, OK)
        ELSE Result([b EXCEPT !.last_update_ns = timestamp_ns,
                              !.ask_levels = LevelSet(b.ask_levels, new_price, order_id, new_size),
                              !.ask_prices = IF LevelEmpty(b.ask_levels, new_price)
                                             THEN heappush(b.ask_prices, new_price)
                                             ELSE b.ask_prices,
                              !.orders = DictSet(b.orders, order_id, updated)],
                    None, OK)

\* faulty variant: the target level is tested before the order leaves its
\* old level
modify_order_body_tests_first(b, order_id, new_price, new_size, timestamp_ns) ==
    IF order_id \notin DOMAIN b.orders THEN Result(b, None, "KeyError")
    ELSE
    LET order == b.orders[order_id]
        old_price == order.price
        updated == [order EXCEPT !.price = new_price, !.size = new_size]
    IN  IF order.side = "BID"
        THEN LET removed == LevelPop(b.bid_levels, old_price, order_id)
                 heap == IF LevelEmpty(b.bid_levels, new_price)
                         THEN heappush(b.bid_prices, -new_price)
                         ELSE b.bid_prices
             IN Result([b EXCEPT !.last_update_ns = timestamp_ns,
                                 !.bid_levels = LevelSet(removed, new_price, order_id, new_size),
                                 !.bid_prices = heap,
                                 !.orders = DictSet(b.orders, order_id, updated)],
                       None, OK)
        ELSE LET removed == LevelPop(b.ask_levels, old_price, order_id)
                 heap == IF LevelEmpty(b.ask_levels, new_price)
                         THEN heappush(b.ask_prices, new_price)
                         ELSE b.ask_prices
             IN Result([b EXCEPT !.last_update_ns = timestamp_ns,
                                 !.ask_levels = LevelSet(removed, new_price, order_id, new_size),
                                 !.ask_prices = heap,
                                 !.orders = DictSet(b.orders, order_id, updated)],
                       None, OK)

\* lines 122-144: the body of modify_order; `self.orders[order_id]` raises
\* KeyError on a missing key
modify_order_body(b, order_id, new_price, new_size, timestamp_ns) ==
    IF order_id \notin DOMAIN b.orders THEN Result(b, None, "KeyError")
    ELSE
    LET order == b.orders[order_id]
        old_price == order.price
        updated == [order EXCEPT !.price = new_price, !.size = new_size]
    IN  IF order.side = "BID"
        THEN LET removed == LevelPop(b.bid_levels, old_price, order_id)
                 heap == IF LevelEmpty(removed, new_price)
                         THEN heappush(b.bid_prices, -new_price)
                         ELSE b.bid_prices
             IN Result([b EXCEPT !.last_update_ns = timestamp_ns,
                                 !.bid_levels = LevelSet(removed, new_price, order_id, new_size),
                                 !.bid_prices = heap,
                                 !.orders = DictSet(b.orders, order_id, updated)],
                       None, OK)
        ELSE LET removed == LevelPop(b.ask_levels, old_price, order_id)
                 heap == IF LevelEmpty(removed, new_price)
                         THEN heappush(b.ask_prices, new_price)
                         ELSE b.ask_prices
             IN Result([b EXCEPT !.last_update_ns = timestamp_ns,
                                 !.ask_levels = LevelSet(removed, new_price, order_id, new_size),
                                 !.ask_prices = heap,
                                 !.orders = DictSet(b.orders, order_id, updated)],
                       None, OK)

\* faulty variant: no `if order_id not in self.orders: return`
modify_order_unguarded(b, order_id, new_price, new_size, timestamp_ns) ==
    modify_order_body(b, order_id, new_price, new_size, timestamp_ns)

\* faulty variant: last_update_ns is not set
modify_order_no_stamp(b, order_id, new_price, new_size, timestamp_ns) ==
    IF order_id \notin DOMAIN b.orders THEN Result(b, None, OK)
    ELSE Result([modify_order_body(b, order_id, new_price, new_size, timestamp_ns).book
                    EXCEPT !.last_update_ns = b.last_update_ns], None, OK)

modify_order(b, order_id, new_price, new_size, timestamp_ns) ==
    IF order_id \notin DOMAIN b.orders THEN Result(b, None, OK)
    ELSE modify_order_body(b, order_id, new_price, new_size, timestamp_ns)

\* faulty variant: an id that is already open is not redirected to
\* modify_order but inserted as a new order
add_order_always_new(b, order_id, price, size, side, timestamp_ns) ==
    LET withOrder == [b EXCEPT !.orders = DictSet(b.orders, order_id,
                                                  Order(order_id, price, size, side)),
                               !.last_update_ns = timestamp_ns]
    IN  IF side = "BID"
        THEN Result([withOrder EXCEPT
                        !.bid_prices = IF LevelEmpty(b.bid_levels, price)
                                       THEN heappush(b.bid_prices, -price)
                                       ELSE b.bid_prices,
                        !.bid_levels = LevelSet(b.bid_levels, price, order_id, size)],
                    None, OK)
        ELSE Result([withOrder EXCEPT
                        !.ask_prices = IF LevelEmpty(b.ask_levels, price)
                                       THEN heappush(b.ask_prices, price)
                                       ELSE b.ask_prices,
                        !.ask_levels = LevelSet(b.ask_levels, price, order_id, size)],
                    None, OK)

\* faulty variant: the ask side is chosen by `side == 'OFFER'`, the bid side
\* is the else branch
add_order_tests_offer(b, order_id, price, size, side, timestamp_ns) ==
    IF order_id \in DOMAIN b.orders
    THEN modify_order(b, order_id, price, size, timestamp_ns)
    ELSE
    LET withOrder == [b EXCEPT !.orders = DictSet(b.orders, order_id,
                                                  Order(order_id, price, size, side)),
                               !.last_update_ns = timestamp_ns]
    IN  IF side = "OFFER"
        THEN Result([withOrder EXCEPT
                        !.ask_prices = IF LevelEmpty(b.ask_levels, price)
                                       THEN heappush(b.ask_prices, price)
                                       ELSE b.ask_prices,
                        !.ask_levels = LevelSet(b.ask_levels, price, order_id, size)],
                    None, OK)
        ELSE Result([withOrder EXCEPT
                        !.bid_prices = IF LevelEmpty(b.bid_levels, price)
                                       THEN heappush(b.bid_prices, -price)
                                       ELSE b.bid_prices,
                        !.bid_levels = LevelSet(b.bid_levels, price, order_id, size)],
                    None, OK)

add_order(b, order_id, price, size, side, timestamp_ns) ==
    IF order_id \in DOMAIN b.orders
    THEN modify_order(b, order_id, price, size, timestamp_ns)
    ELSE
    LET withOrder == [b EXCEPT !.orders = DictSet(b.orders, order_id,
                                                  Order(order_id, price, size, side)),
                               !.last_update_ns = timestamp_ns]
    IN  IF side = "BID"
        THEN Result([withOrder EXCEPT
                        !.bid_prices = IF LevelEmpty(b.bid_levels, price)
                                       THEN heappush(b.bid_prices, -price)
                                       ELSE b.bid_prices,
                        !.bid_levels = LevelSet(b.bid_levels, price, order_id, size)],
                    None, OK)
        ELSE Result([withOrder EXCEPT
                        !.ask_prices = IF LevelEmpty(b.ask_levels, price)
                                       THEN heappush(b.ask_prices, price)
                                       ELSE b.ask_prices,
                        !.ask_levels = LevelSet(b.ask_levels, price, order_id, size)],
                    None, OK)

\* faulty variant: the order leaves `orders` but its level entry stays
delete_order_body_keeps_entry(b, order_id, timestamp_ns) ==
    IF order_id \notin DOMAIN b.orders THEN Result(b, None, "KeyError")
    ELSE Result([b EXCEPT !.last_update_ns = timestamp_ns,
                          !.orders = DictPop(b.orders, order_id)], None, OK)

\* faulty variant: last_update_ns is not set
delete_order_body_no_stamp(b, order_id, timestamp_ns) ==
    IF order_id \notin DOMAIN b.orders THEN Result(b, None, "KeyError")
    ELSE
    LET order == b.orders[order_id]
        popped == IF order.side = "BID"
                  THEN [b EXCEPT !.bid_levels = LevelPop(b.bid_levels, order.price, order_id)]
                  ELSE [b EXCEPT !.ask_levels = LevelPop(b.ask_levels, order.price, order_id)]
    IN  Result([popped EXCEPT !.orders = DictPop(b.orders, order_id)], None, OK)

\* faulty variant: the level entry goes but `del self.orders[order_id]` is
\* missing
delete_order_body_keeps_order(b, order_id, timestamp_ns) ==
    IF order_id \notin DOMAIN b.orders THEN Result(b, None, "KeyError")
    ELSE
    LET order == b.orders[order_id]
    IN  IF order.side = "BID"
        THEN Result([b EXCEPT !.last_update_ns = timestamp_ns,
                              !.bid_levels = LevelPop(b.bid_levels, order.price, order_id)],
                    None, OK)
        ELSE Result([b EXCEPT !.last_update_ns = timestamp_ns,
                              !.ask_levels = LevelPop(b.ask_levels, order.price, order_id)],
                    None, OK)

\* lines 104-114: the body of delete_order; `self.orders[order_id]` and
\* `del self.orders[order_id]` raise KeyError on a missing key
delete_order_body(b, order_id, timestamp_ns) ==
    IF order_id \notin DOMAIN b.orders THEN Result(b, None, "KeyError")
    ELSE
    LET order == b.orders[order_id]
        popped == IF order.side = "BID"
                  THEN [b EXCEPT !.last_update_ns = timestamp_ns,
                                 !.bid_levels = LevelPop(b.bid_levels, order.price, order_id)]
                  ELSE [b EXCEPT !.last_update_ns = timestamp_ns,
                                 !.ask_levels = LevelPop(b.ask_levels, order.price, order_id)]
    IN  Result([popped EXCEPT !.orders = DictPop(b.orders, order_id)], None, OK)

\* faulty variant: last_update_ns is set before the unknown-id test
delete_order_stamps_first(b, order_id, timestamp_ns) ==
    IF order_id \notin DOMAIN b.orders
    THEN Result([b EXCEPT !.last_update_ns = timestamp_ns], None, OK)
    ELSE delete_order_body(b, order_id, timestamp_ns)

delete_order(b, order_id, timestamp_ns) ==
    IF order_id \notin DOMAIN b.orders THEN Result(b, None, OK)
    ELSE delete_order_body(b, order_id, timestamp_ns)

\* faulty variant: the entry of the level that is returned is popped too
RECURSIVE get_best_bid_pops(_)
get_best_bid_pops(b) ==
    IF b.bid_prices = EmptyBag THEN Result(b, <<None, 0>>, OK)
    ELSE LET price == -heaptop(b.bid_prices)
             rest == [b EXCEPT !.bid_prices = heappop(b.bid_prices)]
         IN  IF price \in DOMAIN b.bid_levels /\ Truthy(b.bid_levels[price])
             THEN Result(rest, <<Some(price), SumValues(b.bid_levels[price])>>, OK)
             ELSE get_best_bid_pops(rest)

RECURSIVE get_best_bid(_)
get_best_bid(b) ==
    IF b.bid_prices = EmptyBag THEN Result(b, <<None, 0>>, OK)
    ELSE LET price == -heaptop(b.bid_prices)
         IN  IF price \in DOMAIN b.bid_levels /\ Truthy(b.bid_levels[price])
             THEN Result(b, <<Some(price), SumValues(b.bid_levels[price])>>, OK)
             ELSE get_best_bid([b EXCEPT !.bid_prices = heappop(b.bid_prices)])

\* faulty variant: a level whose sizes sum to 0 is passed over as if empty
RECURSIVE get_best_ask_skips_zero(_)
get_best_ask_skips_zero(b) ==
    IF b.ask_prices = EmptyBag THEN Result(b, <<None, 0>>, OK)
    ELSE LET price == heaptop(b.ask_prices)
         IN  IF /\ price \in DOMAIN b.ask_levels
                /\ Truthy(b.ask_levels[price])
                /\ SumValues(b.ask_levels[price]) > 0
             THEN Result(b, <<Some(price), SumValues(b.ask_levels[price])>>, OK)
             ELSE get_best_ask_skips_zero([b EXCEPT !.ask_prices = heappop(b.ask_prices)])

RECURSIVE get_best_ask(_)
get_best_ask(b) ==
    IF b.ask_prices = EmptyBag THEN Result(b, <<None, 0>>, OK)
    ELSE LET price == heaptop(b.ask_prices)
         IN  IF price \in DOMAIN b.ask_levels /\ Truthy(b.ask_levels[price])
             THEN Result(b, <<Some(price), SumValues(b.ask_levels[price])>>, OK)
             ELSE get_best_ask([b EXCEPT !.ask_prices = heappop(b.ask_prices)])

OrderBookLevel(price, total_size, order_count) ==
    [price |-> price, total_size |-> total_size, order_count |-> order_count]

\* sorted(prices), and sorted(prices, reverse=True)
RECURSIVE Sorted(_, _)
Sorted(prices, reverse) ==
    IF prices = {} THEN <<>>
    ELSE LET first == IF reverse THEN SetMax(prices) ELSE SetMin(prices)
         IN <<first>> \o Sorted(prices \ {first}, reverse)

\* seq[:n] for n >= 0
Take(seq, n) == SubSeq(seq, 1, IF n < Len(seq) THEN n ELSE Len(seq))

\* faulty variant: the keys of emptied levels are not filtered out
depth_side_unfiltered(levels, reverse, n) ==
    LET sorted == Take(Sorted(DOMAIN levels, reverse), n)
    IN [i \in 1..Len(sorted) |->
            OrderBookLevel(sorted[i], SumValues(levels[sorted[i]]),
                           Cardinality(DOMAIN levels[sorted[i]]))]

\* one side of get_depth
depth_side(levels, reverse, n) ==
    LET sorted == Take(Sorted({p \in DOMAIN levels : Truthy(levels[p])}, reverse), n)
    IN [i \in 1..Len(sorted) |->
            OrderBookLevel(sorted[i], SumValues(levels[sorted[i]]),
                           Cardinality(DOMAIN levels[sorted[i]]))]

get_depth(b, levels) ==
    Result(b, [bids |-> depth_side(b.bid_levels, TRUE, levels),
               asks |-> depth_side(b.ask_levels, FALSE, levels)], OK)

TopOfBook(timestamp_ns, security_id, symbol, best_bid_price, best_bid_size, best_ask_price, best_ask_size, spread, mid_price) ==
    [timestamp_ns |-> timestamp_ns, security_id |-> security_id, symbol |-> symbol,
     best_bid_price |-> best_bid_price, best_bid_size |-> best_bid_size,
     best_ask_price |-> best_ask_price, best_ask_size |-> best_ask_size,
     spread |-> spread, mid_price |-> mid_price]

\* faulty variant: a crossed or locked book gets no spread and no mid price
get_top_of_book_uncrossed(b) ==
    LET bid == get_best_bid(b)
        ask == get_best_ask(bid.book)
        best_bid == bid.ret[1]
        best_ask == ask.ret[1]
        both == best_bid # None /\ best_ask # None /\ best_bid[1] < best_ask[1]
    IN  Result(ask.book,
               TopOfBook(ask.book.last_update_ns, ask.book.security_id, ask.book.symbol,
                         best_bid, bid.ret[2], best_ask, ask.ret[2],
                         IF both THEN Some(best_ask[1] - best_bid[1]) ELSE None,
                         IF both THEN Some(<<best_bid[1] + best_ask[1], 2>>) ELSE None),
               OK)

get_top_of_book(b) ==
    LET bid == get_best_bid(b)
        ask == get_best_ask(bid.book)
        best_bid == bid.ret[1]
        best_ask == ask.ret[1]
        both == best_bid # None /\ best_ask # None
    IN  Result(ask.book,
               TopOfBook(ask.book.last_update_ns, ask.book.security_id, ask.book.symbol,
                         best_bid, bid.ret[2], best_ask, ask.ret[2],
                         IF both THEN Some(best_ask[1] - best_bid[1]) ELSE None,
                         IF both THEN Some(<<best_bid[1] + best_ask[1], 2>>) ELSE None),
               OK)

\* ----------------------------------------------------- OrderBookManager
\* faulty variant: creating a book starts a new dict
get_or_create_book_resets(bs, security_id, symbol) ==
    IF security_id \notin DOMAIN bs
    THEN DictSet(EmptyDict, security_id, OrderBook(security_id, symbol))
    ELSE bs

\* self.books after get_or_create_book; the book returned is books[security_id]
get_or_create_book(bs, security_id, symbol) ==
    IF security_id \notin DOMAIN bs
    THEN DictSet(bs, security_id, OrderBook(security_id, symbol))
    ELSE bs

\* faulty variant: the last branch is an else, so any other action adds
apply_update_default_new(b, order_id, action, side, price, size, timestamp_ns) ==
    IF action = "CHANGE" THEN modify_order(b, order_id, price, size, timestamp_ns)
    ELSE IF action = "DELETE" THEN delete_order(b, order_id, timestamp_ns)
    ELSE add_order(b, order_id, price, size, side, timestamp_ns)

\* faulty variant: CHANGE re-inserts the order with the side of the event
apply_update_reinserts(b, order_id, action, side, price, size, timestamp_ns) ==
    IF action = "NEW" THEN add_order(b, order_id, price, size, side, timestamp_ns)
    ELSE IF action = "CHANGE"
    THEN IF order_id \in DOMAIN b.orders
         THEN add_order(delete_order(b, order_id, timestamp_ns).book,
                        order_id, price, size, side, timestamp_ns)
         ELSE Result(b, None, OK)
    ELSE IF action = "DELETE" THEN delete_order(b, order_id, timestamp_ns)
    ELSE Result(b, None, OK)

\* the action dispatch of process_order, lines 260-265
apply_update(b, order_id, action, side, price, size, timestamp_ns) ==
    IF action = "NEW" THEN add_order(b, order_id, price, size, side, timestamp_ns)
    ELSE IF action = "CHANGE" THEN modify_order(b, order_id, price, size, timestamp_ns)
    ELSE IF action = "DELETE" THEN delete_order(b, order_id, timestamp_ns)
    ELSE Result(b, None, OK)

\* faulty variant: a change of the size at the best price counts as well
tob_changed_or_resized(old_tob, new_tob) ==
    \/ old_tob.best_bid_price # new_tob.best_bid_price
    \/ old_tob.best_ask_price # new_tob.best_ask_price
    \/ old_tob.best_bid_size # new_tob.best_bid_size
    \/ old_tob.best_ask_size # new_tob.best_ask_size

\* faulty variant: only the bid price is compared
tob_changed_bid_only(old_tob, new_tob) ==
    old_tob.best_bid_price # new_tob.best_bid_price

\* lines 271-272: did the top of book change
tob_changed(old_tob, new_tob) ==
    \/ old_tob.best_bid_price # new_tob.best_bid_price
    \/ old_tob.best_ask_price # new_tob.best_ask_price

\* faulty variant: the newest snapshot goes to the front of the list
append_tob_in_front(hist, new_tob) == <<new_tob>> \o hist

\* faulty variant: the newest snapshot takes the place of the last one
append_tob_over_last(hist, new_tob) ==
    IF hist = <<>> THEN <<new_tob>> ELSE [hist EXCEPT ![Len(hist)] = new_tob]

\* line 273: self.tob_history.append(new_tob)
append_tob(hist, new_tob) == Append(hist, new_tob)

\* [books, tob_history, ret, exc] after the call
process_order(bs, hist, security_id, symbol, order_id, action, side, price, size, timestamp_ns) ==
    LET created == get_or_create_book(bs, security_id, symbol)
        old == get_top_of_book(created[security_id])
        old_tob == old.ret
        upd == apply_update(old.book, order_id, action, side, price, size, timestamp_ns)
        new == get_top_of_book(upd.book)
        new_tob == new.ret
    IN  IF upd.exc # OK
        THEN [books |-> DictSet(created, security_id, upd.book), tob_history |-> hist,
              ret |-> None, exc |-> upd.exc]
        ELSE IF tob_changed(old_tob, new_tob)
        THEN [books |-> DictSet(created, security_id, new.book),
              tob_history |-> append_tob(hist, new_tob), ret |-> Some(new_tob), exc |-> OK]
        ELSE [books |-> DictSet(created, security_id, new.book),
              tob_history |-> hist, ret |-> None, exc |-> OK]

\* lines 278-280: get_all_tob returns the history list itself
get_all_tob(hist) == hist

\* faulty variant: the book is looked up with get_or_create_book
get_current_tob_creates(bs, security_id) ==
    LET created == get_or_create_book(bs, security_id, SymbolOf(security_id))
        r == get_top_of_book(created[security_id])
    IN  [books |-> DictSet(created, security_id, r.book), ret |-> Some(r.ret)]

\* lines 282-286: [books, ret] after get_current_tob
get_current_tob(bs, security_id) ==
    IF security_id \in DOMAIN bs
    THEN LET r == get_top_of_book(bs[security_id])
         IN  [books |-> DictSet(bs, security_id, r.book), ret |-> Some(r.ret)]
    ELSE [books |-> bs, ret |-> None]

\* ------------------------------------------------------------- state
Init ==
    /\ book = OrderBook(1, SymbolOf(1))
    /\ books = EmptyDict
    /\ tob_history = <<>>
    /\ exc = OK
    /\ call = [op |-> "init"]
    /\ ret = None
    /\ nevents = 0
    /\ input_sorted = TRUE
    /\ run = [fn |-> "none"]
    /\ obs = [nread |-> 0]

HeapsBounded(b) ==
    /\ BagCardinality(b.bid_prices) <= MaxHeap
    /\ BagCardinality(b.ask_prices) <= MaxHeap

\* one method call on a single OrderBook; r is what the method returns
BookCall(r) ==
    /\ exc = OK
    /\ HeapsBounded(r.book)
    /\ book' = r.book
    /\ exc' = r.exc
    /\ UNCHANGED <<books, tob_history, call, ret, nevents, input_sorted, run, obs>>

AddOrder ==
    \E order_id \in OrderIds, price \in Prices, size \in Sizes, side \in Sides, t \in Times :
        \E r \in {add_order(book, order_id, price, size, side, t)} : BookCall(r)

ModifyOrder ==
    \E order_id \in OrderIds, price \in Prices, size \in Sizes, t \in Times :
        \E r \in {modify_order(book, order_id, price, size, t)} : BookCall(r)

DeleteOrder ==
    \E order_id \in OrderIds, t \in Times :
        \E r \in {delete_order(book, order_id, t)} : BookCall(r)

GetBestBid == \E r \in {get_best_bid(book)} : BookCall(r)

GetBestAsk == \E r \in {get_best_ask(book)} : BookCall(r)

GetTopOfBook == \E r \in {get_top_of_book(book)} : BookCall(r)

GetDepth == \E levels \in DepthLevels : \E r \in {get_depth(book, levels)} : BookCall(r)

NextBook ==
    \/ AddOrder
    \/ ModifyOrder
    \/ DeleteOrder
    \/ GetBestBid
    \/ GetBestAsk
    \/ GetTopOfBook
    \/ GetDepth

\* any sequence of method calls on one OrderBook
SpecBook == Init /\ [][NextBook]_vars

\* one process_order call on the OrderBookManager
ProcessOrder ==
    /\ exc = OK
    /\ nevents < MaxEvents
    /\ \E security_id \in SecurityIds, order_id \in OrderIds, action \in Actions,
          side \in Sides, price \in Prices, size \in Sizes, t \in Times :
        \E r \in {process_order(books, tob_history, security_id, SymbolOf(security_id),
                               order_id, action, side, price, size, t)} :
            /\ books' = r.books
            /\ tob_history' = r.tob_history
            /\ exc' = r.exc
            /\ call' = [op |-> "process_order", security_id |-> security_id,
                        order_id |-> order_id, action |-> action, timestamp_ns |-> t,
                        known |-> /\ security_id \in DOMAIN books
                                  /\ order_id \in DOMAIN books[security_id].orders]
            /\ ret' = r.ret
            /\ nevents' = nevents + 1
            /\ input_sorted' = (input_sorted /\ (nevents = 0 \/ call.timestamp_ns <= t))
            /\ UNCHANGED <<book, run, obs>>

Next == ProcessOrder

\* any sequence of at most MaxEvents process_order calls on one manager
Spec == Init /\ [][Next]_vars

\* ----------------------------------------------------- decode loops
\* parse_incremental (src/parser.py) and parse_incremental_sbe
\* (sbe_parser.py) read the capture record by record and feed an
\* OrderBookManager.  A record is what its bytes decode to; the byte-level
\* search (payload.find, struct.unpack, schema.decode) is the input.
\*
\* the manager and the loop's counters while one record is handled
LoopState(bs, hist, e, next_order_id, seen, emitted) ==
    [books |-> bs, tob_history |-> hist, exc |-> e,
     next_order_id |-> next_order_id, seen |-> seen, emitted |-> emitted]

\* ob_manager.process_order(...) issued by a loop; emitted lists the calls
\* (synthetic: the id is the value of next_order_id; open_before: the id was
\* open in that instrument's book at the call)
Emit(L, security_id, order_id, synthetic, action, side, price, size, timestamp_ns) ==
    LET r == process_order(L.books, L.tob_history, security_id, SymbolOf(security_id),
                           order_id, action, side, price, size, timestamp_ns)
        open == /\ security_id \in DOMAIN L.books
                /\ order_id \in DOMAIN L.books[security_id].orders
    IN  [L EXCEPT !.books = r.books, !.tob_history = r.tob_history, !.exc = r.exc,
                  !.emitted = Append(@, [security_id |-> security_id, order_id |-> order_id,
                                         synthetic |-> synthetic, action |-> action,
                                         open_before |-> open])]

\* `price_range[0] < price < price_range[1]`, `5000 < price < 7000`
InRange(price) == price \in Prices

\* parser.py line 159: `max_packets and packet_count >= max_packets`
cap_reached(max_packets, packet_count) ==
    max_packets # None /\ max_packets[1] # 0 /\ packet_count >= max_packets[1]

\* faulty variant: no `if key not in seen`
RECURSIVE scan_instruments_no_seen(_, _, _, _)
scan_instruments_no_seen(L, hits, timestamp_ns, i) ==
    IF i > Len(InstrumentOrder) THEN L
    ELSE LET sec_id == InstrumentOrder[i]
             hit == hits[sec_id]
         IN  IF hit = None THEN scan_instruments_no_seen(L, hits, timestamp_ns, i + 1)
             ELSE LET key == <<timestamp_ns, sec_id, hit[1].price>>
                      called == Emit([L EXCEPT !.seen = @ \cup {key}], sec_id,
                                     L.next_order_id, TRUE, "NEW", hit[1].side,
                                     hit[1].price, 1, timestamp_ns)
                  IN  scan_instruments_no_seen([called EXCEPT !.next_order_id = @ + 1],
                                               hits, timestamp_ns, i + 1)

\* parser.py lines 175-224 for the instruments from position i on; hits[sec_id]
\* is None when the id's bytes are not in the payload or no offset holds a
\* price in range, else <<[side, price]>>
RECURSIVE scan_instruments(_, _, _, _)
scan_instruments(L, hits, timestamp_ns, i) ==
    IF i > Len(InstrumentOrder) THEN L
    ELSE LET sec_id == InstrumentOrder[i]
             hit == hits[sec_id]
         IN  IF hit = None THEN scan_instruments(L, hits, timestamp_ns, i + 1)
             ELSE LET key == <<timestamp_ns, sec_id, hit[1].price>>
                  IN  IF key \in L.seen THEN scan_instruments(L, hits, timestamp_ns, i + 1)
                      ELSE LET called == Emit([L EXCEPT !.seen = @ \cup {key}], sec_id,
                                              L.next_order_id, TRUE, "NEW", hit[1].side,
                                              hit[1].price, 1, timestamp_ns)
                           IN  scan_instruments([called EXCEPT !.next_order_id = @ + 1],
                                                hits, timestamp_ns, i + 1)

\* faulty variant: any decoded SecurityID is accepted
sbe_tracked_any(sec_id) == sec_id # 0

\* sbe_parser.py line 314: `sec_id and sec_id in instruments`
sbe_tracked(sec_id) == sec_id # 0 /\ sec_id \in Instruments

\* sbe_parser.py lines 302-366: the schema-decoded branch.  decode_ok is
\* FALSE when schema.decode raises (the bare except drops the message)
sbe_decoded(L, template_id, decode_ok, values, timestamp_ns) ==
    IF template_id \notin {50, 51} \/ ~decode_ok THEN L
    ELSE IF ~sbe_tracked(values.SecurityID) THEN L
    ELSE LET price == values.mDEntryPx
             side == IF values.mDEntryType = "OFFER" THEN "OFFER" ELSE "BID"
             order_id == IF values.OrderID # None THEN values.OrderID[1]
                         ELSE L.next_order_id
             action == IF template_id = 51 THEN "DELETE"
                       ELSE IF values.mDUpdateAction = "CHANGE" THEN "CHANGE"
                       ELSE "NEW"
             counted == [L EXCEPT !.next_order_id = @ + 1]
         IN  IF price # 0 /\ InRange(price)
             THEN Emit(counted, values.SecurityID, order_id, values.OrderID = None,
                       action, side, price,
                       values.mDEntrySize, timestamp_ns)
             ELSE counted

\* sbe_parser.py lines 369-405 for the instruments from position i on;
\* hits[sec_id] is None or <<price>>, the first price in range after the id
RECURSIVE sbe_fallback(_, _, _, _)
sbe_fallback(L, hits, timestamp_ns, i) ==
    IF i > Len(InstrumentOrder) THEN L
    ELSE LET sec_id == InstrumentOrder[i]
             hit == hits[sec_id]
         IN  IF hit = None THEN sbe_fallback(L, hits, timestamp_ns, i + 1)
             ELSE LET called == Emit(L, sec_id, L.next_order_id, TRUE, "NEW", "BID",
                                     hit[1], 1, timestamp_ns)
                  IN  sbe_fallback([called EXCEPT !.next_order_id = @ + 1],
                                   hits, timestamp_ns, i + 1)

\* the state at the call of a decode loop: a fresh OrderBookManager, the
\* counters at their first values
InitDecode ==
    /\ book = OrderBook(1, SymbolOf(1))
    /\ books = EmptyDict
    /\ tob_history = <<>>
    /\ exc = OK
    /\ call = [op |-> "init"]
    /\ ret = None
    /\ nevents = 0
    /\ input_sorted = TRUE
    /\ \E fn \in Loops, max_packets \in Caps :
        /\ fn = "parse_incremental_sbe" => max_packets # None
        /\ run = [fn |-> fn, max_packets |-> max_packets, packet_count |-> 0,
                  next_order_id |-> 1, seen |-> {}, pc |-> "top", timestamp_ns |-> 0,
                  done |-> FALSE]
    /\ obs = [nread |-> 0, ndecoded |-> 0, emitted |-> <<>>, decoded_sec |-> 0]

Running(fn, pc) ==
    /\ run.fn = fn
    /\ run.pc = pc
    /\ ~run.done
    /\ exc = OK

\* what one record's handling leaves behind
Handled(L, pc) ==
    /\ books' = L.books
    /\ tob_history' = L.tob_history
    /\ exc' = L.exc
    /\ run' = [run EXCEPT !.next_order_id = L.next_order_id, !.seen = L.seen, !.pc = pc]
    /\ UNCHANGED <<book, call, ret, nevents, input_sorted>>

\* parser.py lines 158-172: the next record is taken from the stream, the
\* cap is tested, a heartbeat is skipped
PI_Fetch ==
    /\ Running("parse_incremental", "top")
    /\ obs.nread < MaxRecords
    /\ \E msg_type \in MsgTypes, t \in Times :
        IF cap_reached(run.max_packets, run.packet_count)
        THEN /\ run' = [run EXCEPT !.done = TRUE]
             /\ obs' = [obs EXCEPT !.nread = @ + 1, !.emitted = <<>>]
        ELSE /\ run' = [run EXCEPT !.packet_count = @ + 1,
                                   !.pc = IF msg_type = 334 THEN "top" ELSE "scan",
                                   !.timestamp_ns = t]
             /\ obs' = [obs EXCEPT !.nread = @ + 1, !.emitted = <<>>,
                                   !.ndecoded = @ + 1]
    /\ UNCHANGED <<book, books, tob_history, exc, call, ret, nevents, input_sorted>>

PI_ScanHits == {<<>>} \cup {<<[side |-> side, price |-> price]>> : side \in {"BID", "OFFER"}, price \in Prices}

\* parser.py lines 174-224: the search for every instrument of the table
PI_Scan ==
    /\ Running("parse_incremental", "scan")
    /\ \E hits \in [Instruments -> PI_ScanHits] :
        \E L \in {scan_instruments(LoopState(books, tob_history, exc, run.next_order_id,
                                             run.seen, <<>>),
                                   hits, run.timestamp_ns, 1)} :
            /\ Handled(L, "top")
            /\ obs' = [obs EXCEPT !.emitted = L.emitted]

\* sbe_parser.py lines 286-299: the next packet is taken, packets that are
\* not UDP are passed over, the cap is tested
SBE_Fetch ==
    /\ Running("parse_incremental_sbe", "top")
    /\ obs.nread < MaxRecords
    /\ \E udp \in BOOLEAN, t \in Times :
        IF ~udp
        THEN /\ obs' = [obs EXCEPT !.nread = @ + 1, !.emitted = <<>>]
             /\ UNCHANGED run
        ELSE IF run.packet_count + 1 > run.max_packets[1]
        THEN /\ run' = [run EXCEPT !.packet_count = @ + 1, !.done = TRUE]
             /\ obs' = [obs EXCEPT !.nread = @ + 1, !.emitted = <<>>]
        ELSE /\ run' = [run EXCEPT !.packet_count = @ + 1, !.pc = "decoded",
                                   !.timestamp_ns = t]
             /\ obs' = [obs EXCEPT !.nread = @ + 1, !.emitted = <<>>,
                                   !.ndecoded = @ + 1]
    /\ UNCHANGED <<book, books, tob_history, exc, call, ret, nevents, input_sorted>>

SBE_Values ==
    [SecurityID : DecodedSecurityIds, mDEntryPx : DecodedPrices,
     mDEntryType : {"BID", "OFFER"}, OrderID : DecodedOrderIds,
     mDEntrySize : Sizes, mDUpdateAction : UpdateActions]

\* sbe_parser.py lines 301-366
SBE_Decoded ==
    /\ Running("parse_incremental_sbe", "decoded")
    /\ \E template_id \in TemplateIds, decode_ok \in BOOLEAN, values \in SBE_Values :
        \E L \in {sbe_decoded(LoopState(books, tob_history, exc, run.next_order_id,
                                        run.seen, <<>>),
                              template_id, decode_ok, values, run.timestamp_ns)} :
            /\ Handled(L, "fallback")
            /\ obs' = [obs EXCEPT !.emitted = L.emitted,
                                  !.decoded_sec = IF template_id \in {50, 51} /\ decode_ok
                                                  THEN values.SecurityID ELSE 0]

SBE_FallbackHits == {<<>>} \cup {<<price>> : price \in Prices}

\* sbe_parser.py lines 368-405
SBE_Fallback ==
    /\ Running("parse_incremental_sbe", "fallback")
    /\ \E hits \in [Instruments -> SBE_FallbackHits] :
        \E L \in {sbe_fallback(LoopState(books, tob_history, exc, run.next_order_id,
                                         run.seen, obs.emitted),
                               hits, run.timestamp_ns, 1)} :
            /\ Handled(L, "top")
            /\ obs' = [obs EXCEPT !.emitted = L.emitted]

NextDecode ==
    \/ PI_Fetch
    \/ PI_Scan
    \/ SBE_Fetch
    \/ SBE_Decoded
    \/ SBE_Fallback

\* one run of a decode loop over a stream of at most MaxRecords records (the
\* loop also ends, at the head of the for statement, when the stream does)
SpecDecode == InitDecode /\ [][NextDecode]_vars

\* ------------------------------------------- what the orders alone say
\* the side an order rests on: bid_levels for 'BID', ask_levels otherwise
SideKey(o) == IF o.side = "BID" THEN "bid" ELSE "ask"

SideLevels(b, key) == IF key = "bid" THEN b.bid_levels ELSE b.ask_levels

\* the ids found in the entries of one side's levels
LevelIds(levels) == UNION {DOMAIN levels[p] : p \in DOMAIN levels}

\* the (side, price) levels that hold an entry for order_id
Occurrences(b, order_id) ==
    {<<key, p>> : key \in {"bid", "ask"}, p \in Prices} \cap
    {kp \in {"bid", "ask"} \X Prices :
        /\ kp[2] \in DOMAIN SideLevels(b, kp[1])
        /\ order_id \in DOMAIN SideLevels(b, kp[1])[kp[2]]}

\* the open orders of one side, and of one side at one price
OpenOn(b, key) == {i \in DOMAIN b.orders : SideKey(b.orders[i]) = key}

OpenAt(b, key, price) == {i \in OpenOn(b, key) : b.orders[i].price = price}

RECURSIVE SizeOf(_, _)
SizeOf(b, ids) ==
    IF ids = {} THEN 0
    ELSE LET i == CHOOSE x \in ids : TRUE
         IN b.orders[i].size + SizeOf(b, ids \ {i})

OpenPrices(b, key) == {b.orders[i].price : i \in OpenOn(b, key)}

\* the best bid and ask as the open orders define them
BestBidOfOrders(b) ==
    IF OpenPrices(b, "bid") = {} THEN <<None, 0>>
    ELSE LET P == SetMax(OpenPrices(b, "bid"))
         IN <<Some(P), SizeOf(b, OpenAt(b, "bid", P))>>

BestAskOfOrders(b) ==
    IF OpenPrices(b, "ask") = {} THEN <<None, 0>>
    ELSE LET P == SetMin(OpenPrices(b, "ask"))
         IN <<Some(P), SizeOf(b, OpenAt(b, "ask", P))>>

\* the same orders, levels and update time (the heaps may differ)
SameContents(b, c) ==
    /\ b.orders = c.orders
    /\ b.bid_levels = c.bid_levels
    /\ b.ask_levels = c.ask_levels
    /\ b.last_update_ns = c.last_update_ns
    /\ b.security_id = c.security_id
    /\ b.symbol = c.symbol

\* ---------------------------------------------------------------- claims
\* C1: after every add_order / modify_order / delete_order call (unknown
\* ids, duplicate adds and interleaved queries included) the ids in `orders`
\* are exactly the ids found across bid_levels and ask_levels, and the size
\* in an open order's level entry is Order.size.
C1_OrdersMatchLevels ==
    /\ DOMAIN book.orders = LevelIds(book.bid_levels) \cup LevelIds(book.ask_levels)
    /\ \A id \in DOMAIN book.orders :
        LET o == book.orders[id]
            levels == SideLevels(book, SideKey(o))
        IN  /\ o.price \in DOMAIN levels
            /\ id \in DOMAIN levels[o.price]
            /\ levels[o.price][id] = o.size

\* two open orders on opposite sides next to a level that was emptied
C1_Witness ==
    /\ OpenOn(book, "bid") # {}
    /\ OpenOn(book, "ask") # {}
    /\ \E p \in DOMAIN book.bid_levels : ~Truthy(book.bid_levels[p])

\* C2: get_best_bid returns the highest price among the open BID orders with
\* the summed size of the open bids at that price, get_best_ask the lowest
\* price among the open ask-side orders with its summed size, and (None, 0)
\* when the side has no open order; also for a price whose level was emptied
\* and repopulated.
C2_BestPrices ==
    /\ get_best_bid(book).ret = BestBidOfOrders(book)
    /\ get_best_ask(book).ret = BestAskOfOrders(book)

\* a bid level repopulated while its stale heap entry is still in the heap,
\* holding two orders
C2_Witness ==
    \E p \in Prices :
        /\ CopiesIn(-p, book.bid_prices) >= 2
        /\ Cardinality(OpenAt(book, "bid", p)) = 2
        /\ get_best_bid(book).ret[1] = Some(p)

\* C5: repeated get_best_bid / get_best_ask calls with no add, modify or
\* delete between them all return what the first returned; they change
\* neither `orders` nor any level; only the heaps may lose entries, and only
\* in the first call of each query.
C5_RepeatedQueries ==
    LET bid1 == get_best_bid(book)
        bid2 == get_best_bid(bid1.book)
        ask1 == get_best_ask(book)
        ask2 == get_best_ask(ask1.book)
        askAfterBid == get_best_ask(bid1.book)
        bidAfterAsk == get_best_bid(ask1.book)
    IN  /\ bid2.ret = bid1.ret
        /\ bid2.book = bid1.book
        /\ ask2.ret = ask1.ret
        /\ ask2.book = ask1.book
        /\ askAfterBid.ret = ask1.ret
        /\ bidAfterAsk.ret = bid1.ret
        /\ get_best_bid(askAfterBid.book) = Result(askAfterBid.book, bid1.ret, OK)
        /\ SameContents(bid1.book, book)
        /\ SameContents(ask1.book, book)
        /\ bid1.book.bid_prices \sqsubseteq book.bid_prices
        /\ bid1.book.ask_prices = book.ask_prices
        /\ ask1.book.ask_prices \sqsubseteq book.ask_prices
        /\ ask1.book.bid_prices = book.bid_prices

\* the first get_best_bid pops a stale entry and still finds a price
C5_Witness ==
    LET bid1 == get_best_bid(book)
    IN  /\ bid1.book.bid_prices # book.bid_prices
        /\ bid1.ret[1] # None

\* C7: add_order for an id that is already open leaves the book exactly as
\* modify_order with the same id, price, size and time would: the order rests
\* only at the new price with the new size, on its original side, and the
\* number of open orders is unchanged.
C7_DuplicateAddIsModify ==
    \A id \in DOMAIN book.orders, p \in Prices, q \in Sizes, side \in Sides, t \in Times :
        LET added == add_order(book, id, p, q, side, t)
            key == SideKey(book.orders[id])
        IN  /\ added = modify_order(book, id, p, q, t)
            /\ added.exc = OK
            /\ DOMAIN added.book.orders = DOMAIN book.orders
            /\ added.book.orders[id] = Order(id, p, q, book.orders[id].side)
            /\ Occurrences(added.book, id) = {<<key, p>>}
            /\ SideLevels(added.book, key)[p][id] = q

\* an open bid order next to another open order, for which a duplicate add
\* names the other side and another price
C7_Witness ==
    /\ Cardinality(DOMAIN book.orders) = 2
    /\ \E id \in DOMAIN book.orders, p \in Prices :
        /\ book.orders[id].side = "BID"
        /\ book.orders[id].price # p
        /\ HeapsBounded(add_order(book, id, p, 1, "OFFER", 1).book)
        /\ add_order(book, id, p, 1, "OFFER", 1).book.orders[id].price = p

\* C8: every open order id occurs in exactly one (side, price) level, the
\* one keyed by Order.price on the side of Order.side, and no level holds an
\* id that is not in `orders`.
C8_OneLevelPerOrder ==
    /\ \A id \in DOMAIN book.orders :
        Occurrences(book, id) = {<<SideKey(book.orders[id]), book.orders[id].price>>}
    /\ LevelIds(book.bid_levels) \cup LevelIds(book.ask_levels) \subseteq DOMAIN book.orders

\* two open orders share one ask level while the level one of them left is
\* still a key of ask_levels
C8_Witness ==
    \E p \in Prices, e \in Prices :
        /\ Cardinality(OpenAt(book, "ask", p)) = 2
        /\ e \in DOMAIN book.ask_levels
        /\ ~Truthy(book.ask_levels[e])

\* C4: modify_order and delete_order naming an id that is not open raise
\* nothing and leave the book exactly as it was; process_order with CHANGE or
\* DELETE for such an id raises nothing, returns None, appends no snapshot
\* and leaves the book's orders, levels, last_update_ns and top of book as
\* they were.
C4_UnknownIdIsNoop ==
    \A id \in OrderIds \ DOMAIN book.orders, p \in Prices, q \in Sizes, t \in Times :
        /\ modify_order(book, id, p, q, t) = Result(book, None, OK)
        /\ delete_order(book, id, t) = Result(book, None, OK)
        /\ \A action \in {"CHANGE", "DELETE"}, side \in Sides :
            LET sid == book.security_id
                m == process_order(DictSet(EmptyDict, sid, book), tob_history, sid,
                                   book.symbol, id, action, side, p, q, t)
            IN  /\ m.exc = OK
                /\ m.ret = None
                /\ m.tob_history = tob_history
                /\ DOMAIN m.books = {sid}
                /\ SameContents(m.books[sid], book)
                /\ get_top_of_book(m.books[sid]).ret = get_top_of_book(book).ret

\* a book with an open order and a stale heap entry, later than time 0, in
\* which some id is not open
C4_Witness ==
    /\ DOMAIN book.orders # {}
    /\ OrderIds \ DOMAIN book.orders # {}
    /\ book.last_update_ns > 0
    /\ get_best_bid(book).book # book

\* C3: process_order returns a snapshot exactly when the book's best bid
\* price or best ask price after the event differs from the one before it
\* (None against a value counts); exactly then that snapshot is appended to
\* tob_history; otherwise None is returned and tob_history is unchanged, as
\* for an event that only changes the size at the best price or only touches
\* other levels.
C3_SnapshotIffBestMoved ==
    [][ LET sid == call'.security_id
            before == IF sid \in DOMAIN books THEN books[sid]
                      ELSE OrderBook(sid, SymbolOf(sid))
            after == books'[sid]
            moved == \/ BestBidOfOrders(before)[1] # BestBidOfOrders(after)[1]
                     \/ BestAskOfOrders(before)[1] # BestAskOfOrders(after)[1]
        IN  /\ (ret' # None) <=> moved
            /\ moved => /\ tob_history' = Append(tob_history, ret'[1])
                         /\ ret'[1].best_bid_price = BestBidOfOrders(after)[1]
                         /\ ret'[1].best_ask_price = BestAskOfOrders(after)[1]
            /\ ~moved => tob_history' = tob_history ]_vars

\* a CHANGE of an open order returned None after it changed the size at the
\* best bid price that the one snapshot of the history shows
C3_Witness ==
    /\ call.op = "process_order"
    /\ call.action = "CHANGE"
    /\ call.known
    /\ ret = None
    /\ Len(tob_history) = 1
    /\ LET best == get_best_bid(books[call.security_id]).ret
       IN  /\ best[1] # None
           /\ best[1] = tob_history[1].best_bid_price
           /\ best[2] # tob_history[1].best_bid_size

\* C6: while the timestamp_ns arguments of the process_order calls on a
\* manager are non-decreasing (all instruments interleaved), the
\* timestamp_ns of the snapshots in tob_history is non-decreasing in list
\* order.
C6_HistoryInTimeOrder ==
    input_sorted =>
        \A i \in 1..(Len(tob_history) - 1) :
            tob_history[i].timestamp_ns <= tob_history[i + 1].timestamp_ns

\* two snapshots of two instruments, the later at a later time
C6_Witness ==
    /\ input_sorted
    /\ Len(tob_history) = 2
    /\ tob_history[1].security_id # tob_history[2].security_id
    /\ tob_history[1].timestamp_ns < tob_history[2].timestamp_ns

C10_SnapshotStamp ==
    [][ tob_history' # tob_history =>
            /\ Len(tob_history') = Len(tob_history) + 1
            /\ SubSeq(tob_history', 1, Len(tob_history)) = tob_history
            /\ tob_history'[Len(tob_history')].timestamp_ns = call'.timestamp_ns
            /\ tob_history'[Len(tob_history')].security_id = call'.security_id ]_vars

\* the second event on a book, at a later time than the first, appended a
\* snapshot
C10_Witness ==
    /\ Len(tob_history) = 2
    /\ call.op = "process_order"
    /\ call.known
    /\ ret = Some(tob_history[2])
    /\ tob_history[1].security_id = tob_history[2].security_id
    /\ tob_history[1].timestamp_ns < tob_history[2].timestamp_ns
    /\ tob_history[2].timestamp_ns = call.timestamp_ns

\* C11: get_top_of_book has spread and mid_price both None exactly when
\* best_bid_price or best_ask_price is None; otherwise spread is
\* best_ask_price - best_bid_price (zero and negative values included) and
\* mid_price is (best_bid_price + best_ask_price) / 2; the best prices and
\* sizes it reports are those get_best_bid and get_best_ask return.
C11_SpreadAndMid ==
    LET tob == get_top_of_book(book).ret
        bid == get_best_bid(book).ret
        ask == get_best_ask(book).ret
        one_sided == tob.best_bid_price = None \/ tob.best_ask_price = None
    IN  /\ tob.best_bid_price = bid[1]
        /\ tob.best_bid_size = bid[2]
        /\ tob.best_ask_price = ask[1]
        /\ tob.best_ask_size = ask[2]
        /\ one_sided => tob.spread = None /\ tob.mid_price = None
        /\ ~one_sided =>
              /\ tob.spread = Some(ask[1][1] - bid[1][1])
              /\ tob.mid_price = Some(<<bid[1][1] + ask[1][1], 2>>)

\* a crossed book: the best bid is above the best ask, the spread negative
C11_Witness ==
    LET tob == get_top_of_book(book).ret
    IN  /\ tob.best_bid_price = Some(2)
        /\ tob.best_ask_price = Some(1)
        /\ tob.spread = Some(-1)
        /\ tob.mid_price = Some(<<3, 2>>)

\* the open prices of one side from the best on: bids descending, asks
\* ascending
BestFirst(b, key) == Sorted(OpenPrices(b, key), key = "bid")

\* one side of the depth as the open orders define it
DepthOfOrders(b, key, n) ==
    LET prices == BestFirst(b, key)
        len == IF n < Len(prices) THEN n ELSE Len(prices)
    IN  [i \in 1..len |->
            [price |-> prices[i],
             total_size |-> SizeOf(b, OpenAt(b, key, prices[i])),
             order_count |-> Cardinality(OpenAt(b, key, prices[i]))]]

\* C12: for every levels >= 0, get_depth(levels) returns per side
\* min(levels, number of prices with an open order) entries, the best such
\* prices, strictly descending for bids and strictly ascending for asks,
\* each with the summed size and the number of the open orders at that
\* price; no emptied price appears; the book is left as it was.
C12_Depth ==
    \A levels \in DepthLevels :
        LET r == get_depth(book, levels)
            nbids == Cardinality(OpenPrices(book, "bid"))
            nasks == Cardinality(OpenPrices(book, "ask"))
        IN  /\ r.book = book
            /\ r.exc = OK
            /\ Len(r.ret.bids) = IF levels < nbids THEN levels ELSE nbids
            /\ Len(r.ret.asks) = IF levels < nasks THEN levels ELSE nasks
            /\ \A i \in 1..(Len(r.ret.bids) - 1) : r.ret.bids[i].price > r.ret.bids[i + 1].price
            /\ \A i \in 1..(Len(r.ret.asks) - 1) : r.ret.asks[i].price < r.ret.asks[i + 1].price
            /\ \A i \in 1..Len(r.ret.bids) : r.ret.bids[i].order_count > 0
            /\ \A i \in 1..Len(r.ret.asks) : r.ret.asks[i].order_count > 0
            /\ r.ret.bids = DepthOfOrders(book, "bid", levels)
            /\ r.ret.asks = DepthOfOrders(book, "ask", levels)

\* two populated bid levels, of which get_depth(1) reports the higher only,
\* next to an ask level that was emptied
C12_Witness ==
    /\ Cardinality(OpenPrices(book, "bid")) = 2
    /\ \E p \in DOMAIN book.ask_levels : ~Truthy(book.ask_levels[p])
    /\ Len(get_depth(book, 1).ret.bids) = 1
    /\ get_depth(book, 1).ret.bids[1].price = 2
    /\ get_depth(book, 5).ret.asks = <<>>

\* C13: an order that is open before and after a call keeps its side; in
\* particular modify_order, a duplicate add_order naming another side and
\* process_order CHANGE naming another side leave the order on the levels
\* of its original side.
C13_SideNeverChanges ==
    /\ [][ \A id \in DOMAIN book.orders \cap DOMAIN book'.orders :
              /\ book'.orders[id].side = book.orders[id].side
              /\ \A kp \in Occurrences(book', id) : kp[1] = SideKey(book.orders[id]) ]_vars
    /\ [](\A id \in DOMAIN book.orders, side \in Sides, p \in Prices, q \in Sizes, t \in Times :
              LET sid == book.security_id
                  m == process_order(DictSet(EmptyDict, sid, book), tob_history, sid,
                                     book.symbol, id, "CHANGE", side, p, q, t)
                  after == m.books[sid]
              IN  /\ after.orders[id].side = book.orders[id].side
                  /\ Occurrences(after, id) = {<<SideKey(book.orders[id]), p>>})

\* an open ask-side order for which a duplicate add at another price naming
\* 'BID' stays within the heap bound
C13_Witness ==
    \E id \in DOMAIN book.orders, p \in Prices :
        /\ book.orders[id].side = "OFFER"
        /\ book.orders[id].price # p
        /\ book.last_update_ns = 1
        /\ HeapsBounded(add_order(book, id, p, 1, "BID", 0).book)
        /\ add_order(book, id, p, 1, "BID", 0).book.orders[id].price = p

\* C14: with a cap N >= 0 given as max_packets, the cap is tested before a
\* record's payload is decoded, so at most the first N records are decoded
\* and feed the book, and the loop never stops in the middle of a record.
C14_CapRespected ==
    (run.fn \in Loops /\ run.max_packets # None) =>
        /\ obs.ndecoded <= run.max_packets[1]
        /\ run.done => run.pc = "top"

\* C15: every process_order call of a decode loop names a key of the
\* instruments table; the keys of OrderBookManager.books and the
\* security_id of every snapshot of the history are keys of the table.
C15_TrackedOnly ==
    run.fn \in Loops =>
        /\ \A i \in 1..Len(obs.emitted) : obs.emitted[i].security_id \in Instruments
        /\ DOMAIN books \subseteq Instruments
        /\ \A i \in 1..Len(tob_history) : tob_history[i].security_id \in Instruments

\* a decoded Order_MBO message of an instrument outside the table, with a
\* price in range, was dropped by a loop that had fed the book before
C15_Witness ==
    /\ run.fn = "parse_incremental_sbe"
    /\ run.pc = "fallback"
    /\ obs.decoded_sec \notin Instruments \cup {0}
    /\ obs.emitted = <<>>
    /\ run.next_order_id = 2
    /\ DOMAIN books # {}

\* C16: a record that is consumed results in at most one process_order call.
C16_AtMostOneCall ==
    run.fn \in Loops => Len(obs.emitted) <= 1

\* C17: no NEW event fed to process_order by a decode loop carries an
\* order_id that is open in that instrument's book at the call.
C17_NoNewForOpenId ==
    run.fn \in Loops =>
        \A i \in 1..Len(obs.emitted) :
            obs.emitted[i].action = "NEW" => ~obs.emitted[i].open_before

\* C18: every process_order call leaves the snapshots already in
\* tob_history in place and unchanged and extends the list by nothing or by
\* one element, the snapshot it returns, at the end; get_all_tob returns the
\* list in that order.
C18_AppendOnly ==
    [][ /\ Len(tob_history') \in {Len(tob_history), Len(tob_history) + 1}
        /\ \A i \in 1..Len(tob_history) : tob_history'[i] = tob_history[i]
        /\ Len(tob_history') = Len(tob_history) + 1 =>
              ret' = Some(tob_history'[Len(tob_history')])
        /\ Len(tob_history') = Len(tob_history) => ret' = None
        /\ get_all_tob(tob_history') = tob_history' ]_vars

\* a DELETE appended the second snapshot of an instrument, with no bid
\* left, behind the first, which shows the bid
C18_Witness ==
    /\ Len(tob_history) = 2
    /\ call.op = "process_order"
    /\ call.action = "DELETE"
    /\ get_all_tob(tob_history)[1].best_bid_price # None
    /\ get_all_tob(tob_history)[2].best_bid_price = None
    /\ get_all_tob(tob_history)[1].security_id = get_all_tob(tob_history)[2].security_id

\* C19: a process_order call for one instrument leaves the OrderBook of
\* every other instrument as it was (orders, levels, heaps, last_update_ns,
\* top of book); books of different instruments hold the same order_id at
\* once with their own price, size and side.
C19_OtherBooksUntouched ==
    [][ /\ DOMAIN books' = DOMAIN books \cup {call'.security_id}
        /\ \A sid \in DOMAIN books \ {call'.security_id} :
              /\ books'[sid] = books[sid]
              /\ get_top_of_book(books'[sid]).ret = get_top_of_book(books[sid]).ret ]_vars

\* order 1 is open in the books of both instruments with different price,
\* size and side
C19_Witness ==
    /\ DOMAIN books = SecurityIds
    /\ \A sid \in SecurityIds : 1 \in DOMAIN books[sid].orders
    /\ books[1].orders[1].price # books[2].orders[1].price
    /\ books[1].orders[1].size # books[2].orders[1].size
    /\ books[1].orders[1].side # books[2].orders[1].side

\* C20: process_order with an action other than 'NEW', 'CHANGE', 'DELETE'
\* raises nothing, returns None, appends nothing to tob_history and leaves
\* the orders, the levels and last_update_ns of the instrument's book as
\* they were (a book that did not exist is created empty).
C20_UnknownActionIsNoop ==
    [](\A action \in Actions \ {"NEW", "CHANGE", "DELETE"}, id \in OrderIds, side \in Sides,
          p \in Prices, q \in Sizes, t \in Times :
        /\ \A m \in {process_order(DictSet(EmptyDict, book.security_id, book), tob_history,
                                   book.security_id, book.symbol, id, action, side, p, q, t)} :
              /\ m.exc = OK
              /\ m.ret = None
              /\ m.tob_history = tob_history
              /\ DOMAIN m.books = {book.security_id}
              /\ SameContents(m.books[book.security_id], book)
        /\ process_order(EmptyDict, tob_history, book.security_id, book.symbol, id,
                         action, side, p, q, t)
             = [books |-> DictSet(EmptyDict, book.security_id,
                                  OrderBook(book.security_id, book.symbol)),
                tob_history |-> tob_history, ret |-> None, exc |-> OK])

\* a book with open orders on both sides, last updated at time 1, whose ask
\* heap holds a stale entry that the queries of process_order remove
C20_Witness ==
    /\ OpenOn(book, "bid") # {}
    /\ OpenOn(book, "ask") # {}
    /\ book.last_update_ns = 1
    /\ get_best_ask(book).book # book
    /\ process_order(DictSet(EmptyDict, book.security_id, book), tob_history,
                     book.security_id, book.symbol, 1, "TRADE", "BID", 2, 1, 0
                    ).books[book.security_id].ask_prices # book.ask_prices

\* C21: get_current_tob returns None for an instrument exactly as long as
\* no process_order call has named it; from the first call that names it,
\* no-op calls included, it returns the live top of book of that
\* instrument's book: the best prices and sizes of the orders open now.
C21_CurrentTob ==
    /\ \A sid \in SecurityIds : get_current_tob(books, sid).ret = None
    /\ [][ \A sid \in SecurityIds :
             (get_current_tob(books', sid).ret = None) <=>
                (get_current_tob(books, sid).ret = None /\ call'.security_id # sid) ]_vars
    /\ [](\A sid \in SecurityIds :
            \A now \in {get_current_tob(books, sid).ret} :
               now # None =>
                  /\ sid \in DOMAIN books
                  /\ now[1] = get_top_of_book(books[sid]).ret
                  /\ now[1].security_id = sid
                  /\ <<now[1].best_bid_price, now[1].best_bid_size>> = BestBidOfOrders(books[sid])
                  /\ <<now[1].best_ask_price, now[1].best_ask_size>> = BestAskOfOrders(books[sid]))

\* a DELETE of an unknown order was the first call to name instrument 2: its
\* book exists, empty, and get_current_tob returns its top of book, next to
\* the live top of instrument 1, which the history holds a snapshot of
C21_Witness ==
    /\ call.op = "process_order"
    /\ call.action = "DELETE"
    /\ call.security_id = 2
    /\ DOMAIN books = {1, 2}
    /\ DOMAIN books[2].orders = {}
    /\ get_current_tob(books, 2).ret # None
    /\ get_current_tob(books, 2).ret[1].best_bid_price = None
    /\ get_current_tob(books, 2).ret[1].best_ask_price = None
    /\ Len(tob_history) = 1
    /\ get_current_tob(books, 1).ret[1].best_bid_price = tob_history[1].best_bid_price
    /\ get_current_tob(books, 1).ret[1].best_bid_price # None

\* the heap of one side and the entry a price has in it
SideHeap(b, key) == IF key = "bid" THEN b.bid_prices ELSE b.ask_prices

HeapEntry(key, price) == IF key = "bid" THEN -price ELSE price

\* the prices whose entries a query removed from a heap
Popped(before, after, key) ==
    {p \in Prices : CopiesIn(HeapEntry(key, p), SideHeap(after, key))
                      < CopiesIn(HeapEntry(key, p), SideHeap(before, key))}

\* the heaps of `after` are those of `before` with one more entry for the
\* price on side key if pushed, and equal otherwise
PushedIff(before, after, key, price, pushed) ==
    /\ SideHeap(after, key) =
          IF pushed THEN SideHeap(before, key) (+) SetToBag({HeapEntry(key, price)})
          ELSE SideHeap(before, key)
    /\ \A other \in {"bid", "ask"} \ {key} : SideHeap(after, other) = SideHeap(before, other)

\* C22: every price at which an order is open on a side has an entry in that
\* side's heap; get_best_bid and get_best_ask remove only entries of prices
\* at which no order is open; add_order and modify_order push the price
\* exactly when no other order is open at the target price of the order's
\* side, a modify of a level's only order to its own price included.
C22_HeapSound ==
    [](/\ \A key \in {"bid", "ask"} : \A p \in OpenPrices(book, key) :
             BagIn(HeapEntry(key, p), SideHeap(book, key))
       /\ \A p \in Popped(book, get_best_bid(book).book, "bid") : OpenAt(book, "bid", p) = {}
       /\ \A p \in Popped(book, get_best_ask(book).book, "ask") : OpenAt(book, "ask", p) = {}
       /\ Popped(book, get_best_bid(book).book, "ask") = {}
       /\ Popped(book, get_best_ask(book).book, "bid") = {}
       /\ \A id \in OrderIds, p \in Prices, q \in Sizes, side \in Sides, t \in Times :
             LET key == IF id \in DOMAIN book.orders THEN SideKey(book.orders[id])
                        ELSE SideKey([side |-> side])
                 lonely == OpenAt(book, key, p) \ {id} = {}
             IN  /\ PushedIff(book, add_order(book, id, p, q, side, t).book, key, p, lonely)
                 /\ id \in DOMAIN book.orders =>
                       PushedIff(book, modify_order(book, id, p, q, t).book, key, p, lonely))

\* the only order of a bid level, whose modify to its own price pushes a
\* second entry for that price, in a book whose ask heap holds a stale entry
C22_Witness ==
    \E id \in DOMAIN book.orders :
        /\ book.orders[id].side = "BID"
        /\ OpenAt(book, "bid", book.orders[id].price) = {id}
        /\ CopiesIn(-book.orders[id].price, book.bid_prices) = 1
        /\ CopiesIn(-book.orders[id].price,
                    modify_order(book, id, book.orders[id].price, 1, 1).book.bid_prices) = 2
        /\ Popped(book, get_best_ask(book).book, "ask") # {}

\* C23: after add_order (also when it is redirected to modify_order) and
\* after modify_order or delete_order of an open order, last_update_ns is the
\* call's timestamp_ns; modify_order and delete_order of an unknown id and
\* the queries leave it as it was; it is 0 while no order was ever added.
C23_LastUpdate ==
    /\ (DOMAIN book.bid_levels = {} /\ DOMAIN book.ask_levels = {}) => book.last_update_ns = 0
    /\ get_best_bid(book).book.last_update_ns = book.last_update_ns
    /\ get_best_ask(book).book.last_update_ns = book.last_update_ns
    /\ get_top_of_book(book).book.last_update_ns = book.last_update_ns
    /\ get_top_of_book(book).ret.timestamp_ns = book.last_update_ns
    /\ \A id \in OrderIds, t \in Times :
        LET expected == IF id \in DOMAIN book.orders THEN t ELSE book.last_update_ns
        IN  /\ delete_order(book, id, t).book.last_update_ns = expected
            /\ \A p \in Prices, q \in Sizes :
                /\ modify_order(book, id, p, q, t).book.last_update_ns = expected
                /\ \A side \in Sides : add_order(book, id, p, q, side, t).book.last_update_ns = t

\* a book last updated at time 1 that holds an open order and lacks another
\* id: an earlier-stamped delete of the open one sets the time back to 0,
\* the same delete of the unknown one leaves 1
C23_Witness ==
    /\ book.last_update_ns = 1
    /\ \E id \in DOMAIN book.orders, unknown \in OrderIds \ DOMAIN book.orders :
        /\ delete_order(book, id, 0).book.last_update_ns = 0
        /\ delete_order(book, unknown, 0).book.last_update_ns = 1
        /\ modify_order(book, unknown, 1, 1, 0).book.last_update_ns = 1

\* C24: delete_order of an open order leaves no entry of it in `orders` or
\* in any level; add_order of an id that is not open, an id closed before
\* included, opens an order with exactly the side, price and size of that
\* call, resting only in the level of that side and price.
C24_IdReuse ==
    [](/\ \A id \in DOMAIN book.orders, t \in Times :
             \A d \in {delete_order(book, id, t).book} :
                /\ id \notin DOMAIN d.orders
                /\ Occurrences(d, id) = {}
                /\ \A p \in Prices, q \in Sizes, side \in Sides, u \in Times :
                     \A a \in {add_order(d, id, p, q, side, u)} :
                        /\ a.exc = OK
                        /\ DOMAIN a.book.orders = DOMAIN book.orders
                        /\ a.book.orders[id] = Order(id, p, q, side)
                        /\ Occurrences(a.book, id) = {<<SideKey([side |-> side]), p>>}
                        /\ SideLevels(a.book, SideKey([side |-> side]))[p][id] = q
       /\ \A id \in OrderIds \ DOMAIN book.orders : Occurrences(book, id) = {})

\* no order is open and the bid level 2, where a closed order rested, is
\* still a key: an add of a closed id as 'OFFER' at 2 rests on the ask side
C24_Witness ==
    /\ DOMAIN book.orders = {}
    /\ 2 \in DOMAIN book.bid_levels
    /\ Occurrences(add_order(book, 1, 2, 1, "OFFER", 1).book, 1) = {<<"ask", 2>>}
    /\ Occurrences(add_order(book, 2, 2, 1, "OFFER", 1).book, 2) = {<<"ask", 2>>}
    /\ book.last_update_ns = 1
    /\ BagCardinality(book.bid_prices) = 1

\* the last snapshot of an instrument in the history, None when there is none
LastSnapshot(hist, security_id) ==
    LET at == {i \in 1..Len(hist) : hist[i].security_id = security_id}
    IN  IF at = {} THEN None ELSE Some(hist[SetMax(at)])

\* C25: for every instrument the best bid and ask prices of its latest
\* snapshot in tob_history are the current best prices of its book; with no
\* snapshot in the history both current best prices are None.
C25_LastSnapshotIsCurrent ==
    /\ \A i \in 1..Len(tob_history) : tob_history[i].security_id \in DOMAIN books
    /\ \A sid \in DOMAIN books :
        LET last == LastSnapshot(tob_history, sid)
            bid == BestBidOfOrders(books[sid])[1]
            ask == BestAskOfOrders(books[sid])[1]
        IN  /\ last = None => bid = None /\ ask = None
            /\ last # None => last[1].best_bid_price = bid /\ last[1].best_ask_price = ask

\* the one snapshot of an instrument shows the current best bid price with
\* a size that is no longer the current one, next to an instrument whose
\* book exists without a snapshot
C25_Witness ==
    /\ Len(tob_history) = 1
    /\ nevents = 2
    /\ LET sid == tob_history[1].security_id
       IN  /\ BestBidOfOrders(books[sid])[1] = tob_history[1].best_bid_price
           /\ BestBidOfOrders(books[sid])[1] # None
           /\ BestBidOfOrders(books[sid])[2] # tob_history[1].best_bid_size

\* C26: an order of size 0, added so or modified to 0, stays in `orders` and
\* in its level, which counts as populated: a side's best price is None only
\* when no order is open on it, and it is reported with total size 0 when
\* the orders at it have size 0; add_order, modify_order and the queries
\* never remove an order.
C26_ZeroSizeStaysOpen ==
    [](/\ (get_best_bid(book).ret[1] = None) <=> (OpenOn(book, "bid") = {})
       /\ (get_best_ask(book).ret[1] = None) <=> (OpenOn(book, "ask") = {})
       /\ \A id \in DOMAIN book.orders :
            book.orders[id].size = 0 =>
                LET levels == SideLevels(book, SideKey(book.orders[id]))
                IN  /\ levels[book.orders[id].price][id] = 0
                    /\ Truthy(levels[book.orders[id].price])
       /\ DOMAIN book.orders \subseteq DOMAIN get_best_bid(book).book.orders
       /\ DOMAIN book.orders \subseteq DOMAIN get_best_ask(book).book.orders
       /\ DOMAIN book.orders \subseteq DOMAIN get_top_of_book(book).book.orders
       /\ \A id \in OrderIds, p \in Prices, side \in Sides, t \in Times :
            /\ \A a \in {add_order(book, id, p, 0, side, t).book} :
                 /\ DOMAIN a.orders = DOMAIN book.orders \cup {id}
                 /\ a.orders[id].size = 0
                 /\ a.orders[id].price = p
                 /\ Truthy(SideLevels(a, SideKey(a.orders[id]))[p])
                 /\ IF SideKey(a.orders[id]) = "bid"
                    THEN get_best_bid(a).ret[1] # None
                    ELSE get_best_ask(a).ret[1] # None
            /\ \A m \in {modify_order(book, id, p, 0, t).book} :
                 /\ DOMAIN m.orders = DOMAIN book.orders
                 /\ id \in DOMAIN book.orders =>
                      /\ m.orders[id].size = 0
                      /\ Truthy(SideLevels(m, SideKey(m.orders[id]))[p]))

\* the best ask is reported with total size 0: the two orders at it were
\* set to size 0 and are still open
C26_Witness ==
    /\ get_best_ask(book).ret = <<Some(1), 0>>
    /\ Cardinality(OpenAt(book, "ask", 1)) = 2
    /\ \A id \in DOMAIN book.orders : book.orders[id].size = 0

\* C27: add_order rests an order on the bid side only when side is 'BID';
\* with any other string it rests on the ask side; modify_order and
\* delete_order then move and remove it on that same side, leaving the other
\* side's levels alone.
C27_SideDispatch ==
    [](/\ \A id \in DOMAIN book.orders :
            Occurrences(book, id) =
               {<<IF book.orders[id].side = "BID" THEN "bid" ELSE "ask", book.orders[id].price>>}
       /\ \A id \in OrderIds \ DOMAIN book.orders, p \in Prices, q \in Sizes, side \in Sides :
            \A a \in {add_order(book, id, p, q, side, 1).book} :
               /\ a.orders[id].side = side
               /\ side = "BID" => Occurrences(a, id) = {<<"bid", p>>} /\ a.ask_levels = book.ask_levels
               /\ side # "BID" => Occurrences(a, id) = {<<"ask", p>>} /\ a.bid_levels = book.bid_levels
               /\ \A p2 \in Prices :
                    \A m \in {modify_order(a, id, p2, q, 0).book} :
                       /\ side = "BID" => Occurrences(m, id) = {<<"bid", p2>>} /\ m.ask_levels = book.ask_levels
                       /\ side # "BID" => Occurrences(m, id) = {<<"ask", p2>>} /\ m.bid_levels = book.bid_levels
                       /\ \A d \in {delete_order(m, id, 1).book} :
                            /\ Occurrences(d, id) = {}
                            /\ d.orders = book.orders
                            /\ side = "BID" => d.ask_levels = book.ask_levels
                            /\ side # "BID" => d.bid_levels = book.bid_levels)

\* an order whose side is neither 'BID' nor 'OFFER' rests on the ask side
\* after a modify moved it from the ask level 1, next to an open bid
C27_Witness ==
    \E id \in DOMAIN book.orders :
        /\ book.orders[id].side = "SELL"
        /\ Occurrences(book, id) = {<<"ask", 2>>}
        /\ 1 \in DOMAIN book.ask_levels
        /\ OpenOn(book, "bid") # {}

\* the order a 'NEW' call for an id that was not open has created
Created(bs, e) == bs[e.security_id].orders[e.order_id]

\* the (timestamp_ns, security_id, price) of such a call of the record read
\* at timestamp_ns
EventKey(bs, timestamp_ns, e) == <<timestamp_ns, e.security_id, Created(bs, e).price>>

\* a best price that may be None, as a number: None sorts below every bid
\* and above every ask
BidRank(price) == IF price = None THEN 0 ELSE price[1]

AskRank(price) == IF price = None THEN SetMax(Prices) + 1 ELSE price[1]

\* C28: in parse_incremental every process_order call is a 'NEW' of size 1
\* with an order_id above every earlier one and a (timestamp_ns,
\* security_id, price) no earlier call had; so no call meets an open order,
\* the orders of a book are never changed or removed, and over the
\* snapshots of an instrument the best bid never falls and the best ask
\* never rises.
C28_ReplayOnlyAdds ==
    /\ [](run.fn = "parse_incremental" =>
            /\ \A i \in 1..Len(obs.emitted) :
                 /\ obs.emitted[i].action = "NEW"
                 /\ ~obs.emitted[i].open_before
                 /\ Created(books, obs.emitted[i]).size = 1
                 /\ obs.emitted[i].order_id < run.next_order_id
                 /\ EventKey(books, run.timestamp_ns, obs.emitted[i]) \in run.seen
                 /\ \A j \in 1..(i - 1) :
                      /\ obs.emitted[j].order_id < obs.emitted[i].order_id
                      /\ EventKey(books, run.timestamp_ns, obs.emitted[j])
                            # EventKey(books, run.timestamp_ns, obs.emitted[i])
            /\ \A sid \in DOMAIN books :
                 /\ \A id \in DOMAIN books[sid].orders :
                      id < run.next_order_id /\ books[sid].orders[id].size = 1
                 /\ \A other \in DOMAIN books \ {sid} :
                      DOMAIN books[sid].orders \cap DOMAIN books[other].orders = {}
            /\ \A i \in 1..Len(tob_history), j \in 1..Len(tob_history) :
                 (i < j /\ tob_history[i].security_id = tob_history[j].security_id) =>
                    /\ BidRank(tob_history[i].best_bid_price) <= BidRank(tob_history[j].best_bid_price)
                    /\ AskRank(tob_history[i].best_ask_price) >= AskRank(tob_history[j].best_ask_price))
    /\ [][run.fn = "parse_incremental" =>
            /\ run'.next_order_id >= run.next_order_id
            /\ run.seen \subseteq run'.seen
            /\ run.pc = "scan" =>
                 /\ run'.next_order_id = run.next_order_id + Len(obs'.emitted)
                 /\ \A i \in 1..Len(obs'.emitted) :
                      /\ obs'.emitted[i].order_id >= run.next_order_id
                      /\ EventKey(books', run.timestamp_ns, obs'.emitted[i]) \notin run.seen
            /\ \A sid \in DOMAIN books :
                 /\ sid \in DOMAIN books'
                 /\ \A id \in DOMAIN books[sid].orders :
                      /\ id \in DOMAIN books'[sid].orders
                      /\ books'[sid].orders[id] = books[sid].orders[id]]_vars

\* the second record scanned gave a call for each instrument, ids 2 and 3
\* after the first record's id 1, and raised the best bid of an instrument
\* from 1 to 2 over its two snapshots
C28_Witness ==
    /\ run.fn = "parse_incremental"
    /\ run.next_order_id = 4
    /\ Len(obs.emitted) = 2
    /\ obs.emitted[1].order_id = 2
    /\ obs.emitted[2].order_id = 3
    /\ \E i \in 1..Len(tob_history), j \in 1..Len(tob_history) :
         /\ i < j
         /\ tob_history[i].security_id = tob_history[j].security_id
         /\ tob_history[i].best_bid_price = Some(1)
         /\ tob_history[j].best_bid_price = Some(2)

\* ------------------------------------------- gold arbitrage backtests
\* Backtest.run (src/backtest.py) and BacktestLimit.run
\* (src/backtest_limit.py) walk the rows of a frame once.  Prices, P&L and
\* z-scores are in tenths, times in milliseconds; a NaN z-score is None.
\*
\* the z-scores of a row (zscore_long, zscore_short): NaN; an entry signal
\* for LONG_SPREAD that is also the stop of a SHORT_SPREAD; an entry signal
\* for SHORT_SPREAD that is also the stop of a LONG_SPREAD; the take-profit
\* exit of either
ZScores == {<<None, None>>, <<Some(-50), Some(10)>>, <<Some(-10), Some(50)>>, <<Some(0), Some(0)>>}

\* the B3 quotes of a row (bid_b3, ask_b3, bid_qty_b3, ask_qty_b3): a tight
\* liquid market, the same with no bid quantity, a higher market wider than
\* max_b3_spread_for_entry
B3Quotes == {<<2000, 2000, 1, 1>>, <<2000, 2000, 0, 1>>, <<3000, 3400, 1, 1>>}

\* what a row holds besides its ts
FrameRows ==
    {[ts |-> 0, zscore_long |-> z[1], zscore_short |-> z[2],
      bid_b3 |-> q[1], ask_b3 |-> q[2], bid_qty_b3 |-> q[3], ask_qty_b3 |-> q[4],
      bid_moex |-> 2000, ask_moex |-> 2010, bid_qty_moex |-> 1, ask_qty_moex |-> 1] :
        z \in ZScores, q \in B3Quotes}

\* the frames of at most MaxRows rows; row i (from 0) has ts = i
Frames ==
    UNION {{[i \in 1..n |-> [rows[i] EXCEPT !.ts = i - 1]] : rows \in [1..n -> FrameRows]} :
              n \in 0..MaxRows}

\* the constructor arguments: the defaults of __init__, with the latency
\* and the timeout in units of the spacing of the rows
BacktestParams ==
    {[entry_threshold |-> 20, exit_threshold |-> 5, stop_loss_threshold |-> 40,
      commission_per_contract |-> 1, position_size |-> 1, min_liquidity |-> 1,
      b3_latency_ms |-> latency, limit_order_offset |-> 0,
      limit_order_timeout_ms |-> timeout, limit_order_price_mode |-> "mid",
      max_b3_spread_for_entry |-> 300] : latency \in {1, 2}, timeout \in {0, 1}}

\* df.iloc[i]
Row(df, i) == df[i + 1]

\* Position()
Position0 ==
    [type |-> "NONE", entry_time |-> None, entry_zscore |-> Some(0), entry_spread |-> 0,
     entry_b3_price |-> 0, entry_moex_price |-> 0]

is_flat(position) == position.type = "NONE"

net_pnl(trade) == trade.pnl - trade.commission

check_liquidity(P, row) ==
    /\ row.bid_qty_b3 >= P.min_liquidity
    /\ row.ask_qty_b3 >= P.min_liquidity
    /\ row.bid_qty_moex >= P.min_liquidity
    /\ row.ask_qty_moex >= P.min_liquidity

check_b3_spread(P, row) == row.ask_b3 - row.bid_b3 <= P.max_b3_spread_for_entry

calculate_commission(P) == P.commission_per_contract * P.position_size * 2

\* the quotes of the frames have an even sum, so the division is exact
calculate_limit_price(P, bid_b3, ask_b3, is_buy) ==
    LET mid == (bid_b3 + ask_b3) \div 2
    IN  IF P.limit_order_price_mode = "mid" THEN mid
        ELSE IF P.limit_order_price_mode = "passive"
        THEN (IF is_buy THEN bid_b3 ELSE ask_b3)
        ELSE IF P.limit_order_price_mode = "aggressive"
        THEN (IF is_buy THEN mid + P.limit_order_offset ELSE mid - P.limit_order_offset)
        ELSE mid

\* backtest.py lines 147-150: the loop from row i on, stop = min(signal_idx
\* + 1000, len(df))
RECURSIVE scan_delayed_b3_price(_, _, _, _, _)
scan_delayed_b3_price(df, i, stop, target_time, is_buy) ==
    IF i >= stop THEN None
    ELSE IF Row(df, i).ts >= target_time
    THEN Some(IF is_buy THEN Row(df, i).ask_b3 ELSE Row(df, i).bid_b3)
    ELSE scan_delayed_b3_price(df, i + 1, stop, target_time, is_buy)

find_delayed_b3_price(P, df, signal_idx, signal_time, is_buy) ==
    LET target_time == signal_time + P.b3_latency_ms
        stop == IF signal_idx + 1000 < Len(df) THEN signal_idx + 1000 ELSE Len(df)
    IN  scan_delayed_b3_price(df, signal_idx + 1, stop, target_time, is_buy)

\* faulty variant: no `if ts > deadline: return None`
RECURSIVE scan_limit_fill_no_deadline(_, _, _, _, _, _, _, _, _)
scan_limit_fill_no_deadline(P, df, i, max_scan, signal_time, order_active_time, deadline, limit_price, is_buy) ==
    IF i >= max_scan THEN None
    ELSE LET row == Row(df, i)
             ts == row.ts
         IN  IF ts < order_active_time
             THEN scan_limit_fill_no_deadline(P, df, i + 1, max_scan, signal_time,
                                              order_active_time, deadline, limit_price, is_buy)
             ELSE IF is_buy /\ row.ask_b3 <= limit_price /\ row.ask_qty_b3 >= P.position_size
             THEN Some([price |-> limit_price, idx |-> i, row |-> row,
                        fill_time_ms |-> ts - signal_time])
             ELSE IF ~is_buy /\ row.bid_b3 >= limit_price /\ row.bid_qty_b3 >= P.position_size
             THEN Some([price |-> limit_price, idx |-> i, row |-> row,
                        fill_time_ms |-> ts - signal_time])
             ELSE scan_limit_fill_no_deadline(P, df, i + 1, max_scan, signal_time,
                                              order_active_time, deadline, limit_price, is_buy)

\* backtest_limit.py lines 228-246: the loop from row i on
RECURSIVE scan_limit_fill(_, _, _, _, _, _, _, _, _)
scan_limit_fill(P, df, i, max_scan, signal_time, order_active_time, deadline, limit_price, is_buy) ==
    IF i >= max_scan THEN None
    ELSE LET row == Row(df, i)
             ts == row.ts
         IN  IF ts < order_active_time
             THEN scan_limit_fill(P, df, i + 1, max_scan, signal_time, order_active_time,
                                  deadline, limit_price, is_buy)
             ELSE IF ts > deadline THEN None
             ELSE IF is_buy /\ row.ask_b3 <= limit_price /\ row.ask_qty_b3 >= P.position_size
             THEN Some([price |-> limit_price, idx |-> i, row |-> row,
                        fill_time_ms |-> ts - signal_time])
             ELSE IF ~is_buy /\ row.bid_b3 >= limit_price /\ row.bid_qty_b3 >= P.position_size
             THEN Some([price |-> limit_price, idx |-> i, row |-> row,
                        fill_time_ms |-> ts - signal_time])
             ELSE scan_limit_fill(P, df, i + 1, max_scan, signal_time, order_active_time,
                                  deadline, limit_price, is_buy)

find_limit_fill(P, df, signal_idx, signal_time, limit_price, is_buy) ==
    LET order_active_time == signal_time + P.b3_latency_ms
        deadline == order_active_time + P.limit_order_timeout_ms
        max_scan == IF signal_idx + 5000 < Len(df) THEN signal_idx + 5000 ELSE Len(df)
    IN  scan_limit_fill(P, df, signal_idx + 1, max_scan, signal_time, order_active_time,
                        deadline, limit_price, is_buy)

\* _open_position of both classes: row is the signal row in Backtest, the
\* fill row in BacktestLimit
open_position(row, position_type, b3_price) ==
    LET entry_moex_price == IF position_type = "LONG_SPREAD" THEN row.bid_moex
                            ELSE row.ask_moex
    IN  [type |-> position_type,
         entry_time |-> Some(row.ts),
         entry_zscore |-> IF position_type = "LONG_SPREAD" THEN row.zscore_long
                          ELSE row.zscore_short,
         entry_spread |-> b3_price - entry_moex_price,
         entry_b3_price |-> b3_price,
         entry_moex_price |-> entry_moex_price]

\* the Trade that _close_position of both classes appends; fill_time_ms is
\* 0 in Backtest, whose Trade has no exit_fill_time_ms
close_position(P, position, row, b3_price, fill_time_ms) ==
    LET long == position.type = "LONG_SPREAD"
        exit_moex == IF long THEN row.ask_moex ELSE row.bid_moex
        pnl == IF long
               THEN (b3_price - position.entry_b3_price) - (exit_moex - position.entry_moex_price)
               ELSE (position.entry_b3_price - b3_price) - (position.entry_moex_price - exit_moex)
    IN  [entry_time |-> position.entry_time,
         exit_time |-> Some(row.ts),
         position_type |-> position.type,
         entry_zscore |-> position.entry_zscore,
         exit_zscore |-> IF long THEN row.zscore_short ELSE row.zscore_long,
         entry_spread |-> position.entry_spread,
         exit_spread |-> b3_price - exit_moex,
         entry_b3_price |-> position.entry_b3_price,
         entry_moex_price |-> position.entry_moex_price,
         exit_b3_price |-> b3_price,
         exit_moex_price |-> exit_moex,
         pnl |-> pnl * P.position_size,
         commission |-> calculate_commission(P) * 2,
         exit_fill_time_ms |-> fill_time_ms]

\* the exit test of both run loops
should_exit(P, position, zscore_long, zscore_short) ==
    IF position.type = "LONG_SPREAD"
    THEN zscore_short > P.stop_loss_threshold \/ zscore_long > -P.exit_threshold
    ELSE zscore_long < -P.stop_loss_threshold \/ zscore_short < P.exit_threshold

\* the fields of `self` and the locals that a run loop changes
RunState(position, trades, equity, cumulative_pnl, skip_until_idx, limit_attempts, limit_fills, fill_times_ms) ==
    [position |-> position, trades |-> trades, equity |-> equity,
     cumulative_pnl |-> cumulative_pnl, skip_until_idx |-> skip_until_idx,
     limit_attempts |-> limit_attempts, limit_fills |-> limit_fills,
     fill_times_ms |-> fill_times_ms, evaluated |-> FALSE]

\* the trade is appended, the position dropped, the P&L added
Closed(S, trade) ==
    [S EXCEPT !.trades = Append(@, trade), !.position = Position0,
              !.cumulative_pnl = @ + net_pnl(trade)]

\* backtest.py lines 262-307: the signals of one row
backtest_signals(P, S, df, idx) ==
    LET row == Row(df, idx)
        zscore_long == row.zscore_long[1]
        zscore_short == row.zscore_short[1]
        has_liquidity == check_liquidity(P, row)
    IN  IF is_flat(S.position) /\ has_liquidity
        THEN IF zscore_long < -P.entry_threshold
             THEN LET delayed_b3_price == find_delayed_b3_price(P, df, idx, row.ts, TRUE)
                  IN  IF delayed_b3_price # None
                      THEN [S EXCEPT !.position = open_position(row, "LONG_SPREAD",
                                                                delayed_b3_price[1])]
                      ELSE S
             ELSE IF zscore_short > P.entry_threshold
             THEN LET delayed_b3_price == find_delayed_b3_price(P, df, idx, row.ts, FALSE)
                  IN  IF delayed_b3_price # None
                      THEN [S EXCEPT !.position = open_position(row, "SHORT_SPREAD",
                                                                delayed_b3_price[1])]
                      ELSE S
             ELSE S
        ELSE IF ~is_flat(S.position)
        THEN IF should_exit(P, S.position, zscore_long, zscore_short) /\ has_liquidity
             THEN LET is_buy_b3 == S.position.type = "SHORT_SPREAD"
                      delayed_b3_price == find_delayed_b3_price(P, df, idx, row.ts, is_buy_b3)
                  IN  IF delayed_b3_price # None
                      THEN Closed(S, close_position(P, S.position, row, delayed_b3_price[1], 0))
                      ELSE S
             ELSE S
        ELSE S

\* backtest.py lines 254-309: one pass of the loop of Backtest.run
backtest_row(P, S, df, idx) ==
    LET row == Row(df, idx)
    IN  IF row.zscore_long = None \/ row.zscore_short = None
        THEN [S EXCEPT !.equity = Append(@, S.cumulative_pnl), !.evaluated = FALSE]
        ELSE LET T == backtest_signals(P, S, df, idx)
             IN  [T EXCEPT !.equity = Append(@, T.cumulative_pnl), !.evaluated = TRUE]

\* faulty variant: run returns without the forced close
force_close_skipped(P, S, df) == S

\* the forced close at the end of both run methods
force_close(P, S, df) ==
    IF ~is_flat(S.position)
    THEN LET last_row == df[Len(df)]
             forced_b3_price == IF S.position.type = "LONG_SPREAD" THEN last_row.bid_b3
                                ELSE last_row.ask_b3
             T == Closed(S, close_position(P, S.position, last_row, forced_b3_price, 0))
         IN  [T EXCEPT !.equity[Len(T.equity)] = T.cumulative_pnl]
    ELSE S

\* an entry or exit order of BacktestLimit.run that was filled
Filled(S, fill) ==
    [S EXCEPT !.limit_fills = @ + 1,
              !.fill_times_ms = Append(@, fill.fill_time_ms),
              !.skip_until_idx = fill.idx + 1]

\* backtest_limit.py lines 363-430: the signals of one row
limit_signals(P, S, df, idx) ==
    LET row == Row(df, idx)
        zscore_long == row.zscore_long[1]
        zscore_short == row.zscore_short[1]
        has_liquidity == check_liquidity(P, row)
        attempted == [S EXCEPT !.limit_attempts = @ + 1]
    IN  IF is_flat(S.position) /\ has_liquidity /\ check_b3_spread(P, row)
        THEN IF zscore_long < -P.entry_threshold
             THEN LET limit_price == calculate_limit_price(P, row.bid_b3, row.ask_b3, TRUE)
                      fill == find_limit_fill(P, df, idx, row.ts, limit_price, TRUE)
                  IN  IF fill # None
                      THEN Filled([attempted EXCEPT !.position =
                                      open_position(fill[1].row, "LONG_SPREAD", fill[1].price)],
                                  fill[1])
                      ELSE attempted
             ELSE IF zscore_short > P.entry_threshold
             THEN LET limit_price == calculate_limit_price(P, row.bid_b3, row.ask_b3, FALSE)
                      fill == find_limit_fill(P, df, idx, row.ts, limit_price, FALSE)
                  IN  IF fill # None
                      THEN Filled([attempted EXCEPT !.position =
                                      open_position(fill[1].row, "SHORT_SPREAD", fill[1].price)],
                                  fill[1])
                      ELSE attempted
             ELSE S
        ELSE IF ~is_flat(S.position)
        THEN IF should_exit(P, S.position, zscore_long, zscore_short) /\ has_liquidity
             THEN LET is_buy_b3 == S.position.type = "SHORT_SPREAD"
                      limit_price == calculate_limit_price(P, row.bid_b3, row.ask_b3, is_buy_b3)
                      fill == find_limit_fill(P, df, idx, row.ts, limit_price, is_buy_b3)
                  IN  IF fill # None
                      THEN Filled(Closed(attempted,
                                         close_position(P, S.position, fill[1].row,
                                                        fill[1].price, fill[1].fill_time_ms)),
                                  fill[1])
                      ELSE attempted
             ELSE S
        ELSE S

\* backtest_limit.py lines 352-432: one pass of the loop of BacktestLimit.run
limit_row(P, S, df, idx) ==
    LET row == Row(df, idx)
    IN  IF idx < S.skip_until_idx
        THEN [S EXCEPT !.equity = Append(@, S.cumulative_pnl), !.evaluated = FALSE]
        ELSE IF row.zscore_long = None \/ row.zscore_short = None
        THEN [S EXCEPT !.equity = Append(@, S.cumulative_pnl), !.evaluated = FALSE]
        ELSE LET T == limit_signals(P, S, df, idx)
             IN  [T EXCEPT !.equity = Append(@, T.cumulative_pnl), !.evaluated = TRUE]

\* the state in which run has reset `self` and is about to enter its loop;
\* obs lists the rows at which a position was opened or closed, those whose
\* signals were evaluated, and the (signal row, fill row) of the fills
InitBacktest ==
    /\ book = OrderBook(1, SymbolOf(1))
    /\ books = EmptyDict
    /\ tob_history = <<>>
    /\ exc = OK
    /\ call = [op |-> "init"]
    /\ ret = None
    /\ nevents = 0
    /\ input_sorted = TRUE
    /\ \E fn \in {"Backtest.run", "BacktestLimit.run"}, P \in BacktestParams, df \in Frames :
        run = [fn |-> fn, params |-> P, df |-> df, idx |-> 0, pc |-> "loop",
               self |-> RunState(Position0, <<>>, <<0>>, 0, 0, 0, 0, <<>>)]
    /\ obs = [opened |-> {}, closed |-> {}, evaluated |-> {}, fills |-> {}]

\* what one pass of a loop, or the forced close, leaves behind
Passed(S, idx, pc) ==
    /\ run' = [run EXCEPT !.self = S, !.idx = idx, !.pc = pc]
    /\ obs' = [opened |-> obs.opened \cup
                    (IF is_flat(run.self.position) /\ ~is_flat(S.position)
                     THEN {run.idx} ELSE {}),
               closed |-> obs.closed \cup
                    (IF Len(S.trades) > Len(run.self.trades)
                     THEN {IF pc = "loop" THEN run.idx ELSE Len(run.df) - 1} ELSE {}),
               evaluated |-> obs.evaluated \cup
                    (IF pc = "loop" /\ S.evaluated THEN {run.idx} ELSE {}),
               fills |-> obs.fills \cup
                    (IF S.limit_fills > run.self.limit_fills
                     THEN {<<run.idx, S.skip_until_idx - 1>>} ELSE {})]
    /\ UNCHANGED <<book, books, tob_history, exc, call, ret, nevents, input_sorted>>

BT_Row ==
    /\ run.fn = "Backtest.run"
    /\ run.pc = "loop"
    /\ run.idx < Len(run.df)
    /\ Passed(backtest_row(run.params, run.self, run.df, run.idx), run.idx + 1, "loop")

\* backtest.py lines 311-325
BT_Return ==
    /\ run.fn = "Backtest.run"
    /\ run.pc = "loop"
    /\ run.idx = Len(run.df)
    /\ Passed(force_close(run.params, run.self, run.df), run.idx, "returned")

BL_Row ==
    /\ run.fn = "BacktestLimit.run"
    /\ run.pc = "loop"
    /\ run.idx < Len(run.df)
    /\ Passed(limit_row(run.params, run.self, run.df, run.idx), run.idx + 1, "loop")

\* backtest_limit.py lines 434-452
BL_Return ==
    /\ run.fn = "BacktestLimit.run"
    /\ run.pc = "loop"
    /\ run.idx = Len(run.df)
    /\ Passed(force_close(run.params, run.self, run.df), run.idx, "returned")

NextBacktest ==
    \/ BT_Row
    \/ BT_Return
    \/ BL_Row
    \/ BL_Return

\* one call of run on a frame of at most MaxRows rows
SpecBacktest == InitBacktest /\ [][NextBacktest]_vars

LimitPrices == {(q[1] + q[2]) \div 2 : q \in B3Quotes}

\* row i is inside the order's window and touches the limit price
FillableAt(P, df, signal_idx, i, limit_price, is_buy) ==
    /\ Row(df, signal_idx).ts + P.b3_latency_ms <= Row(df, i).ts
    /\ Row(df, i).ts <= Row(df, signal_idx).ts + P.b3_latency_ms + P.limit_order_timeout_ms
    /\ IF is_buy
       THEN Row(df, i).ask_b3 <= limit_price /\ Row(df, i).ask_qty_b3 >= P.position_size
       ELSE Row(df, i).bid_b3 >= limit_price /\ Row(df, i).bid_qty_b3 >= P.position_size

\* C30: a fill that _find_limit_fill returns is at a row after the signal
\* row, inside [signal_time + b3_latency_ms, signal_time + b3_latency_ms +
\* limit_order_timeout_ms], the first such row that touches the limit price
\* with enough quantity, and before any row past the deadline; it returns
\* None when a row past the deadline comes before every such row; in
\* BacktestLimit.run no row between a signal row and its fill row has its
\* signals evaluated, and limit_fills <= limit_attempts.
C30_LimitFill ==
    [](/\ \A signal_idx \in 0..(Len(run.df) - 1), limit_price \in LimitPrices, is_buy \in BOOLEAN :
            LET P == run.params
                df == run.df
                later == (signal_idx + 1)..(Len(df) - 1)
                deadline == Row(df, signal_idx).ts + P.b3_latency_ms + P.limit_order_timeout_ms
                past == {j \in later : Row(df, j).ts > deadline}
                hits == {j \in later : FillableAt(P, df, signal_idx, j, limit_price, is_buy)}
            IN  \A fill \in {find_limit_fill(P, df, signal_idx, Row(df, signal_idx).ts,
                                             limit_price, is_buy)} :
                  /\ fill # None =>
                       /\ fill[1].idx \in hits
                       /\ \A j \in hits \cup past : fill[1].idx <= j
                       /\ fill[1].price = limit_price
                       /\ fill[1].row = Row(df, fill[1].idx)
                       /\ fill[1].fill_time_ms = Row(df, fill[1].idx).ts - Row(df, signal_idx).ts
                  /\ fill = None => \A j \in hits : \E k \in past : k < j
       /\ run.self.limit_fills <= run.self.limit_attempts
       /\ run.self.limit_fills = Cardinality(obs.fills)
       /\ run.self.limit_fills = Len(run.self.fill_times_ms)
       /\ \A sf \in obs.fills :
            /\ sf[1] < sf[2]
            /\ sf[2] < run.self.skip_until_idx
            /\ \A r \in obs.evaluated : ~(sf[1] < r /\ r < sf[2]))

\* the order of row 0 was filled on row 2, the first row after the latency
\* of 2, although row 1 touched the limit price; row 1 was passed over
C30_Witness ==
    /\ run.fn = "BacktestLimit.run"
    /\ run.params.b3_latency_ms = 2
    /\ obs.fills = {<<0, 2>>}
    /\ obs.evaluated = {0}
    /\ run.idx = 3
    /\ run.self.limit_attempts = 1
    /\ run.self.limit_fills = 1
    /\ run.self.position.type = "LONG_SPREAD"
    /\ Row(run.df, 1).ask_b3 <= run.self.position.entry_b3_price
    /\ Row(run.df, 1).zscore_long # None

====
